---- MODULE Spec2Model ----
(***************************************************************************)
(* Model of nintendo-pi-rs: the combo detector (combo.rs), the Pro         *)
(* Controller subcommand protocol (bt/protocol.rs), the pairing loop       *)
(* (bt/emulator.rs), the Bluetooth report builder and the HID report       *)
(* parser (input.rs), the report channel between the USB worker and the    *)
(* Bluetooth forwarder (main.rs), the published session state and its      *)
(* two locks (web/state.rs), the macro engine: store, recorder, player and *)
(* controller (macro_engine/), and the supervisor (main.rs): the accept    *)
(* wait with its sockets (bt/emulator.rs), the timers of one L2CAP         *)
(* session, and the state that outlives a session; the HID reader thread   *)
(* (usb/hid.rs), the worker's live path and playback override (main.rs),   *)
(* index.json under a writer and a reader (macro_engine/storage.rs), and   *)
(* the Bluetooth host setup loop (main.rs, bt/sdp.rs).                     *)
(*                                                                         *)
(* Each component has its own specification (SpecCombo, ...); the          *)
(* variables of the other components stay at their initial values.         *)
(***************************************************************************)
EXTENDS Integers, Sequences, FiniteSets, TLC

VARIABLES
    \* ---- ComboDetector (combo.rs:79-84) and its clock
    macro_mode,        \* ComboDetector.macro_mode
    dpad_down_start,   \* Option<Instant>: <<>> is None, <<t>> is Some(t), t in ms
    prev_buttons,      \* ComboDetector.prev_buttons: the set of pressed buttons
    prev_base_held,    \* ComboDetector.prev_base_held
    now,               \* the monotonic clock read by Instant::now(), in ms
    cd_action,         \* the action returned by the last update call
    cd_suppressed,     \* the SuppressedButtons returned by the last update call
    cd_op,             \* what the last step was: "new", "update", "tick", "mode"
    \* ---- history of the current L3+R3+D-pad Down hold (for the hold claims)
    hold_begin,        \* <<t>>: time of the first call of the current hold; <<>>: no hold
    hold_toggles,      \* ToggleMacroMode actions returned during the current hold
    \* ---- handle_subcommand called on its own (protocol.rs)
    sc_id,             \* the subcommand id passed, -1 before any call
    sc_data,           \* the subcommand payload passed
    sc_ret,            \* the (ack, reply data) returned
    \* ---- run_pairing (emulator.rs:253-353) and the interrupt channel
    pr_pc,             \* "accepted", "loop", "ok" (returned Ok), "err" (returned Err)
    timer,             \* let mut timer: u8
    vibration_enabled,
    player_set,
    device_info_queried,
    received_first_message,
    itr_out,           \* the last write on the interrupt channel: call site, the
                       \* received buffer it answers, and the bytes written
    pr_replied,        \* history: the subcommand ids a reply was written for
    \* ---- build_bt_report called on its own (input.rs)
    rp_in,             \* the arguments passed, <<>> before any call
    rp_out             \* the 50-byte report returned

comboVars == <<macro_mode, dpad_down_start, prev_buttons, prev_base_held, now,
               cd_action, cd_suppressed, cd_op, hold_begin, hold_toggles>>

protoVars == <<sc_id, sc_data, sc_ret>>

pairVars == <<pr_pc, timer, vibration_enabled, player_set, device_info_queried,
              received_first_message, itr_out, pr_replied>>

reportVars == <<rp_in, rp_out>>

VARIABLES
    \* ---- parse_hid_report called on its own (input.rs)
    ph_in,             \* the 64-byte USB report passed, <<>> before any call
    ph_out             \* the InputState returned

parseVars == <<ph_in, ph_out>>

VARIABLES
    \* ---- the worker-to-forwarder report channel (main.rs:183) and its ends
    ch_queue,          \* the reports queued in the channel, oldest first
    ch_sender_alive,   \* report_tx not yet dropped: usb_processing_loop runs
    produced,          \* number of reports the worker has built so far
    last_try_send,     \* result of the last try_send: "none", "Ok", "Full"
    fw_pc,             \* BT side: "waiting" (accept, pairing), "forwarding", "done"
    bt_timer,          \* let mut bt_timer: u8
    ch_accepted,       \* history: the reports try_send accepted, in order
    ch_received,       \* history: the reports recv returned, in order
    ch_dropped         \* history: the reports try_send refused

chanVars == <<ch_queue, ch_sender_alive, produced, last_try_send, fw_pc,
              bt_timer, ch_accepted, ch_received, ch_dropped>>

VARIABLES
    \* ---- MitmState (web/state.rs:136-139), called sequentially
    ms_inner,          \* MitmState.inner: the stored StateSnapshot
    ms_changed,        \* MitmState.changed
    ms_pop,            \* result of the last pop_if_changed: <<>> None, <<s>> Some(s)
    ms_replaced,       \* history: an update replaced the snapshot since the last pop
    ms_trace           \* history: the last calls, oldest first

stateVars == <<ms_inner, ms_changed, ms_pop, ms_replaced, ms_trace>>

VARIABLES
    \* ---- the macros directory, the recorder (recorder.rs:10-14) and the
    \* ---- store operations (storage.rs)
    fs_files,          \* the .bin files of the macros directory: name -> bytes
    fs_index,          \* the entries index.json holds (none when it is missing)
    rec_recording,     \* MacroRecorder.recording
    rec_frames,        \* MacroRecorder.frames: sequence of <<timestamp, report>>
    rec_elapsed,       \* <<>>: start is None; <<us>>: microseconds since start
    st_op,             \* the last call: its name, the number of frames it was
                       \* given, its I/O outcomes, the Option it
                       \* returned (ret) or the bool it returned (ok)
    st_calls           \* number of store and recorder calls made so far

storeVars == <<fs_files, fs_index, rec_recording, rec_frames, rec_elapsed,
               st_op, st_calls>>

VARIABLES
    \* ---- MacroPlayer (player.rs:15-25) and its clock
    pl_playing,        \* MacroPlayer.playing
    pl_looping,        \* MacroPlayer.looping
    pl_speed,          \* MacroPlayer.speed, in thousandths
    pl_mmap,           \* Option<Mmap>: <<>> or <<the bytes of the file>>
    pl_frame_count,    \* MacroPlayer.frame_count
    pl_frame_index,    \* MacroPlayer.frame_index
    pl_start,          \* Option<Instant>: <<>> or <<t>>, t in microseconds
    pl_last_report,    \* Option<[u8; 64]>: <<>> or <<report>>
    pl_now,            \* the monotonic clock, in microseconds
    pl_op,             \* the last call, its argument and what it returned:
                       \* ret an Option, ok the bool of load and start
    \* ---- history of the current playback (for the playback claims)
    pl_last_idx,       \* number of the frame pl_last_report was copied from
    pl_run             \* how the playback was started, what it returned so far

playerVars == <<pl_playing, pl_looping, pl_speed, pl_mmap, pl_frame_count,
                pl_frame_index, pl_start, pl_last_report, pl_now, pl_op,
                pl_last_idx, pl_run>>

\* ---- MacroController (macro_engine/controller.rs), which owns the recorder,
\* ---- the player and the macros directory above
VARIABLES
    ct_built,          \* MacroController::new has run
    ct_macro_mode,     \* MacroController.macro_mode
    current_slot,      \* MacroController.current_slot
    cached_slot_count, \* MacroController.cached_slot_count
    cached_macro_name, \* MacroController.cached_macro_name: <<>> or <<name>>
    ct_op,             \* history: the last command, its MacroEffect, and the
                       \* slot and index length it started from
    ct_cmds            \* history: number of controller steps so far

ctrlVars == <<ct_built, ct_macro_mode, current_slot, cached_slot_count,
              cached_macro_name, ct_op, ct_cmds>>

\* ---- MitmState shared between threads (web/state.rs, main.rs): the two
\* ---- mutexes around ms_inner and ms_changed above
VARIABLES
    lk_inner,          \* owner of the mutex MitmState.inner: a thread or ""
    lk_changed,        \* owner of the mutex MitmState.changed: a thread or ""
    lk_pc,             \* per thread: "idle" or the point its call has reached
    lk_arg             \* per thread: the snapshot its update was called with

lockVars == <<lk_inner, lk_changed, lk_pc, lk_arg>>

VARIABLES
    \* ---- main: the hardware lifecycle loop, and accept_connection
    \* ---- (main.rs, bt/emulator.rs)
    su_pc,             \* where the supervisor is: "usb_init", "accept",
                       \* "accept_sleep", "pairing", "forwarding", "usb_await"
    usb_running,       \* usb_processing_loop has been spawned and not returned
    su_queue,          \* number of reports queued in the report channel
    su_timer,          \* run_pairing: let mut timer: u8; 0 outside run_pairing
    accept_fut,        \* the pinned accept future: "none", "new" (not polled
                       \* yet), "listening", "ok", "err", "dropped"
    accept_ch,         \* per channel, its async_accept in the join: "idle",
                       \* "pending", or the way it returned
    sk_opened,         \* the sockets the current accept future has opened
    sk_closes,         \* per socket, the number of close calls on it
    sk_session,        \* the accepted sockets the BtSession owns
    psm_held,          \* PSMs bound by listeners earlier futures left open
    su_op              \* history: the last step, [op, arg]

supVars == <<su_pc, usb_running, su_queue, su_timer, accept_fut, accept_ch,
             sk_opened, sk_closes, sk_session, psm_held, su_op>>

VARIABLES
    \* ---- one L2CAP session after another: run_pairing and the forwarding
    \* ---- loop, with the reports they write (bt/emulator.rs, main.rs)
    se_pc,             \* "waiting" (for accept), "pairing", "forwarding"
    se_bt_connected,   \* bt_connected: Arc<AtomicBool>
    se_timer,          \* run_pairing: let mut timer: u8; 0 outside run_pairing
    se_bt_timer,       \* main: let mut bt_timer: u8; 0 outside the loop
    se_vibration,      \* run_pairing: vibration_enabled
    se_player_set,     \* run_pairing: player_set
    se_last,           \* history: phase and timer of the last report written
                       \* in this session, phase "none" before the first
    se_op              \* history: the last step, [op, outcome, out] with out
                       \* the reports handed to write_all, in order

sessVars == <<se_pc, se_bt_connected, se_timer, se_bt_timer, se_vibration,
              se_player_set, se_last, se_op>>

VARIABLES
    \* ---- what lives past a session: the worker's macro state, the
    \* ---- published snapshot and the supervisor's timer (main.rs)
    dn_pc,             \* supervisor: "usb_init", "waiting", "forwarding"
    dn_usb_running,    \* usb_processing_loop has been spawned and not returned
    dn_worker,         \* the worker's combo.macro_mode, recorder.recording
                       \* and player.playing
    dn_queue,          \* number of reports queued in the report channel
    dn_bt_connected,   \* bt_connected: Arc<AtomicBool>
    dn_bt_timer,       \* main: let mut bt_timer: u8; 0 outside the loop
    dn_snapshot,       \* the StateSnapshot last given to MitmState::update
    dn_since,          \* history: "bt" or "usb" after that disconnect, until
                       \* a command sets a flag ("changed") or a report is
                       \* forwarded ("none")
    dn_op              \* history: the last step, [op, timer]

downVars == <<dn_pc, dn_usb_running, dn_worker, dn_queue, dn_bt_connected,
              dn_bt_timer, dn_snapshot, dn_since, dn_op>>

VARIABLES
    \* ---- the HID reader threads, one per USB cycle (usb/hid.rs, main.rs)
    hid_pc,            \* per reader: "unborn", "reading" (in read_timeout),
                       \* "got" (the read returned), "sending" (blocked in
                       \* send), "exited_ok", "exited_err"
    hid_read,          \* per reader, what its last read returned: "none",
                       \* "timeout", "short", "full", "err"
    hid_queue,         \* per reader, the reports queued in its sync_channel
    hid_rx             \* per reader, its receiver: "none", "alive", "dropped"

hidVars == <<hid_pc, hid_read, hid_queue, hid_rx>>

VARIABLES
    \* ---- one HID report on the worker's live path (main.rs 580-612)
    lv_in,             \* the raw report read from the HID channel, <<>> before
    lv_held,           \* parsed.buttons before the filter
    lv_buttons,        \* parsed.buttons after the filter
    lv_filtered,       \* filtered_report
    lv_frames,         \* what the iteration appended to the recorder's buffer
    lv_bt              \* the report queued for the Bluetooth side

liveVars == <<lv_in, lv_held, lv_buttons, lv_filtered, lv_frames, lv_bt>>

VARIABLES
    \* ---- the worker's playback override and LED (main.rs 356-578)
    wk_player,         \* the worker's MacroPlayer: playing, looping, mmap
                       \* (<<>> or <<the name of the mapped file>>),
                       \* frame_count, frame_index, start, and last_idx, the
                       \* number of the frame last_report holds, 0 for None
    wk_macro_mode,     \* combo.macro_mode
    wk_recording,      \* recorder.recording
    wk_slot,           \* current_slot
    wk_led,            \* the pattern of the last led::set_led, "" before any
    wk_now,            \* the monotonic clock, in microseconds
    wk_dir,            \* the macros directory: files and index.json; no
                       \* step of the worker modelled here writes to it
    wk_op              \* history: the last step, the command or combo action
                       \* it handled, the number of the frame get_frame
                       \* returned (0: none, -1: not called) and what was
                       \* queued for the Bluetooth side

workVars == <<wk_player, wk_macro_mode, wk_recording, wk_slot, wk_led, wk_now,
              wk_dir, wk_op>>

VARIABLES
    \* ---- index.json under a writer and a reader (storage.rs 44-69)
    ix_file,           \* the text of index.json
    ix_pc,             \* the worker inside fs::write: "idle", "truncated"
                       \* (the file is opened and cut), "partial" (a first
                       \* write has put a part of the text)
    ix_data,           \* the text fs::write is writing
    ix_before,         \* the index the last mutation loaded
    ix_after,          \* the index the last mutation saves
    ix_seen            \* <<>> or <<the index the reader's load_index returned>>

indexVars == <<ix_file, ix_pc, ix_data, ix_before, ix_after, ix_seen>>

VARIABLES
    \* ---- the Bluetooth host setup loop of main (main.rs 87-107, bt/sdp.rs)
    bs_pc,             \* where main is: "connect", "agent", "adapter",
                       \* "profile", "name", "class", "sleep" (the 3 s before
                       \* the retry), "done" (the loop is left), "lifecycle"
    bs_prop,           \* configure_adapter: the number of the next property
    bs_log,            \* what the attempt under way has registered and written
    bs_tolerated,      \* the registrations of the attempt that BlueZ answered
                       \* with "already exists"
    bs_attempts        \* attempts started

setupVars == <<bs_pc, bs_prop, bs_log, bs_tolerated, bs_attempts>>

vars == <<comboVars, protoVars, pairVars, reportVars, parseVars, chanVars,
         stateVars, storeVars, playerVars, ctrlVars, lockVars, supVars,
         sessVars, downVars, hidVars, liveVars, workVars, indexVars,
         setupVars>>

\* What a step of one component leaves alone: the other components.
notCombo == <<protoVars, pairVars, reportVars, parseVars, chanVars,
                stateVars, storeVars, playerVars, ctrlVars, lockVars,
                supVars, sessVars, downVars, hidVars, liveVars, workVars,
                indexVars, setupVars>>
notProto == <<comboVars, pairVars, reportVars, parseVars, chanVars,
                stateVars, storeVars, playerVars, ctrlVars, lockVars,
                supVars, sessVars, downVars, hidVars, liveVars, workVars,
                indexVars, setupVars>>
notPair == <<comboVars, protoVars, reportVars, parseVars, chanVars,
               stateVars, storeVars, playerVars, ctrlVars, lockVars,
               supVars, sessVars, downVars, hidVars, liveVars, workVars,
               indexVars, setupVars>>
notReport == <<comboVars, protoVars, pairVars, parseVars, chanVars,
                 stateVars, storeVars, playerVars, ctrlVars, lockVars,
                 supVars, sessVars, downVars, hidVars, liveVars, workVars,
                 indexVars, setupVars>>
notParse == <<comboVars, protoVars, pairVars, reportVars, chanVars,
                stateVars, storeVars, playerVars, ctrlVars, lockVars,
                supVars, sessVars, downVars, hidVars, liveVars, workVars,
                indexVars, setupVars>>
notChan == <<comboVars, protoVars, pairVars, reportVars, parseVars,
               stateVars, storeVars, playerVars, ctrlVars, lockVars,
               supVars, sessVars, downVars, hidVars, liveVars, workVars,
               indexVars, setupVars>>
notState == <<comboVars, protoVars, pairVars, reportVars, parseVars,
                chanVars, storeVars, playerVars, ctrlVars, lockVars,
                supVars, sessVars, downVars, hidVars, liveVars, workVars,
                indexVars, setupVars>>
notStore == <<comboVars, protoVars, pairVars, reportVars, parseVars,
                chanVars, stateVars, playerVars, ctrlVars, lockVars,
                supVars, sessVars, downVars, hidVars, liveVars, workVars,
                indexVars, setupVars>>
notPlayer == <<comboVars, protoVars, pairVars, reportVars, parseVars,
                 chanVars, stateVars, storeVars, ctrlVars, lockVars,
                 supVars, sessVars, downVars, hidVars, liveVars, workVars,
                 indexVars, setupVars>>
notCtrl == <<comboVars, protoVars, pairVars, reportVars, parseVars,
               chanVars, stateVars, storeVars, playerVars, lockVars,
               supVars, sessVars, downVars, hidVars, liveVars, workVars,
               indexVars, setupVars>>
notLock == <<comboVars, protoVars, pairVars, reportVars, parseVars,
               chanVars, stateVars, storeVars, playerVars, ctrlVars,
               supVars, sessVars, downVars, hidVars, liveVars, workVars,
               indexVars, setupVars>>
notSup == <<comboVars, protoVars, pairVars, reportVars, parseVars,
              chanVars, stateVars, storeVars, playerVars, ctrlVars,
              lockVars, sessVars, downVars, hidVars, liveVars, workVars,
              indexVars, setupVars>>
notSess == <<comboVars, protoVars, pairVars, reportVars, parseVars,
               chanVars, stateVars, storeVars, playerVars, ctrlVars,
               lockVars, supVars, downVars, hidVars, liveVars, workVars,
               indexVars, setupVars>>
notDown == <<comboVars, protoVars, pairVars, reportVars, parseVars,
               chanVars, stateVars, storeVars, playerVars, ctrlVars,
               lockVars, supVars, sessVars, hidVars, liveVars, workVars,
               indexVars, setupVars>>
notHid == <<comboVars, protoVars, pairVars, reportVars, parseVars,
              chanVars, stateVars, storeVars, playerVars, ctrlVars,
              lockVars, supVars, sessVars, downVars, liveVars, workVars,
              indexVars, setupVars>>
notLive == <<comboVars, protoVars, pairVars, reportVars, parseVars,
               chanVars, stateVars, storeVars, playerVars, ctrlVars,
               lockVars, supVars, sessVars, downVars, hidVars, workVars,
               indexVars, setupVars>>
notWork == <<comboVars, protoVars, pairVars, reportVars, parseVars,
               chanVars, stateVars, storeVars, playerVars, ctrlVars,
               lockVars, supVars, sessVars, downVars, hidVars, liveVars,
               indexVars, setupVars>>
notIndex == <<comboVars, protoVars, pairVars, reportVars, parseVars,
                chanVars, stateVars, storeVars, playerVars, ctrlVars,
                lockVars, supVars, sessVars, downVars, hidVars, liveVars,
                workVars, setupVars>>
notSetup == <<comboVars, protoVars, pairVars, reportVars, parseVars,
                chanVars, stateVars, storeVars, playerVars, ctrlVars,
                lockVars, supVars, sessVars, downVars, hidVars, liveVars,
                workVars, indexVars>>

(***************************************************************************)
(* Bounds of the model.                                                    *)
(***************************************************************************)
\* The clock advances in steps of TickMs and stops at MaxNow.
TickMs == 250
MaxNow == 1250

(***************************************************************************)
(* combo.rs                                                                *)
(***************************************************************************)
\* HOLD_DURATION = 0.5 s, in ms.
HOLD_DURATION == 500

\* SuppressedButtons.buttons is a fixed array of 8.
SuppressedCapacity == 8

\* INSTANT_COMBOS, in table order.
INSTANT_COMBOS ==
    << <<"DpadLeft", "PrevSlot">>,
       <<"DpadRight", "NextSlot">>,
       <<"A", "PlayMacro">>,
       <<"B", "StopPlayback">> >>

ComboAction ==
    {"None", "ToggleMacroMode", "ToggleRecording", "PrevSlot", "NextSlot",
     "PlayMacro", "StopPlayback"}

\* The buttons the detector reads.
ComboButtons == {"L3", "R3", "DpadDown", "DpadLeft", "DpadRight", "A", "B"}

\* SuppressedButtons::add: append unless the array is full.
SuppressedAdd(sup, btn) ==
    IF Len(sup) < SuppressedCapacity THEN Append(sup, btn) ELSE sup

\* SuppressedButtons::contains
SuppressedContains(sup, btn) == \E i \in 1..Len(sup) : sup[i] = btn

\* The set of buttons a SuppressedButtons holds.
SuppressedSet(sup) == {sup[i] : i \in 1..Len(sup)}

\* let base_held = buttons.get(L3) && buttons.get(R3)
BaseHeld(buttons) == "L3" \in buttons /\ "R3" \in buttons

\* The D-pad Down hold block of update (lines 107-124), base held.
\* Returns the action so far and the new dpad_down_start.
DpadHold(buttons, start, t) ==
    IF "DpadDown" \in buttons
    THEN IF start = <<>>
         THEN [action |-> "None", start |-> <<t>>]
         ELSE IF t - start[1] >= HOLD_DURATION
              THEN [action |-> "ToggleMacroMode", start |-> <<>>]
              ELSE [action |-> "None", start |-> start]
    ELSE [action |-> "None", start |-> <<>>]

\* Mutant of InstantStep: level-triggered, the previous frame is ignored.
InstantStepLevel(action, buttons, prev, entry) ==
    IF entry[1] \in buttons THEN entry[2] ELSE action

\* One iteration of the instant-combo loop (lines 127-136): a rising edge
\* assigns the action, overwriting what was there.
InstantStep(action, buttons, prev, entry) ==
    IF entry[1] \in buttons /\ entry[1] \notin prev THEN entry[2] ELSE action

\* The instant-combo loop over INSTANT_COMBOS[i..], in table order.
RECURSIVE InstantLoop(_, _, _, _)
InstantLoop(action, buttons, prev, i) ==
    IF i > Len(INSTANT_COMBOS) THEN action
    ELSE InstantLoop(InstantStep(action, buttons, prev, INSTANT_COMBOS[i]),
                     buttons, prev, i + 1)

\* The suppressed.add calls of the instant-combo loop, in table order.
RECURSIVE InstantSuppress(_, _, _)
RECURSIVE FilterRawReportEarly(_, _)
RECURSIVE filter_raw_report(_, _)
InstantSuppress(sup, buttons, i) ==
    IF i > Len(INSTANT_COMBOS) THEN sup
    ELSE InstantSuppress(
            IF INSTANT_COMBOS[i][1] \in buttons
            THEN SuppressedAdd(sup, INSTANT_COMBOS[i][1]) ELSE sup,
            buttons, i + 1)

\* Mutant of RecordingRule: the base's rising edge is not required.
RecordingRuleNoEdge(action, mode, prevBase, buttons) ==
    IF mode
    THEN LET any_combo_btn ==
                 "DpadDown" \in buttons
                 \/ \E i \in 1..Len(INSTANT_COMBOS) : INSTANT_COMBOS[i][1] \in buttons
         IN IF ~any_combo_btn THEN "ToggleRecording" ELSE action
    ELSE action

\* The recording rule (lines 138-145): in macro mode, a rising edge of the
\* base with no combo button held replaces the action by ToggleRecording.
RecordingRule(action, mode, prevBase, buttons) ==
    IF mode /\ ~prevBase
    THEN LET any_combo_btn ==
                 "DpadDown" \in buttons
                 \/ \E i \in 1..Len(INSTANT_COMBOS) : INSTANT_COMBOS[i][1] \in buttons
         IN IF ~any_combo_btn THEN "ToggleRecording" ELSE action
    ELSE action

\* Mutant of UpdateSuppressed: D-pad Down is masked whether pressed or not.
UpdateSuppressedAlwaysDown(buttons) ==
    IF BaseHeld(buttons)
    THEN InstantSuppress(<<"L3", "R3", "DpadDown">>, buttons, 1)
    ELSE <<>>

\* The mask built by update (lines 100-105, 110, 131).
UpdateSuppressed(buttons) ==
    IF BaseHeld(buttons)
    THEN LET s2 == SuppressedAdd(SuppressedAdd(<<>>, "L3"), "R3")
             s3 == IF "DpadDown" \in buttons THEN SuppressedAdd(s2, "DpadDown") ELSE s2
         IN InstantSuppress(s3, buttons, 1)
    ELSE <<>>

\* The action returned by update (lines 99-148).
UpdateAction(buttons, start, prev, prevBase, mode, t) ==
    IF BaseHeld(buttons)
    THEN RecordingRule(
             InstantLoop(DpadHold(buttons, start, t).action, buttons, prev, 1),
             mode, prevBase, buttons)
    ELSE "None"

\* dpad_down_start after update (lines 111-124, 147).
UpdateStart(buttons, start, t) ==
    IF BaseHeld(buttons) THEN DpadHold(buttons, start, t).start ELSE <<>>

\* ComboDetector::new
ComboInit ==
    /\ macro_mode = FALSE
    /\ dpad_down_start = <<>>
    /\ prev_buttons = {}
    /\ prev_base_held = FALSE
    /\ now = 0
    /\ cd_action = "None"
    /\ cd_suppressed = <<>>
    /\ cd_op = "new"
    /\ hold_begin = <<>>
    /\ hold_toggles = 0

\* History of the hold that the frame `buttons` continues, starts or ends.
HoldHistory(buttons) ==
    LET holding == BaseHeld(buttons) /\ "DpadDown" \in buttons
        fresh == hold_begin = <<>>
        toggled == IF cd_action' = "ToggleMacroMode" THEN 1 ELSE 0
    IN /\ hold_begin' = IF holding THEN (IF fresh THEN <<now>> ELSE hold_begin)
                        ELSE <<>>
       /\ hold_toggles' = IF holding
                          THEN (IF fresh THEN 0 ELSE hold_toggles) + toggled
                          ELSE 0

\* ComboDetector::update(buttons)
Update(buttons) ==
    /\ cd_action' = UpdateAction(buttons, dpad_down_start, prev_buttons,
                                 prev_base_held, macro_mode, now)
    /\ cd_suppressed' = UpdateSuppressed(buttons)
    /\ dpad_down_start' = UpdateStart(buttons, dpad_down_start, now)
    /\ prev_buttons' = buttons
    /\ prev_base_held' = BaseHeld(buttons)
    /\ cd_op' = "update"
    /\ HoldHistory(buttons)
    /\ UNCHANGED <<macro_mode, now>>
    /\ UNCHANGED notCombo

\* The caller flips the public field: combo.macro_mode = !combo.macro_mode.
SetMacroMode ==
    /\ macro_mode' = ~macro_mode
    /\ cd_op' = "mode"
    /\ UNCHANGED <<dpad_down_start, prev_buttons, prev_base_held, now,
                   cd_action, cd_suppressed, hold_begin, hold_toggles>>
    /\ UNCHANGED notCombo

\* Time passes between two calls.
Tick ==
    /\ now + TickMs <= MaxNow
    /\ now' = now + TickMs
    /\ cd_op' = "tick"
    /\ UNCHANGED <<macro_mode, dpad_down_start, prev_buttons, prev_base_held,
                   cd_action, cd_suppressed, hold_begin, hold_toggles>>
    /\ UNCHANGED notCombo

ComboNext ==
    \/ \E buttons \in SUBSET ComboButtons : Update(buttons)
    \/ SetMacroMode
    \/ Tick

(***************************************************************************)
(* bt/protocol.rs                                                          *)
(***************************************************************************)
\* vec![v; n]
Fill(v, n) == [i \in 1..n |-> v]

\* seq[i] with the source's 0-based index.
At(seq, i) == seq[i + 1]

\* &seq[from..] with the source's 0-based index.
From(seq, from) == SubSeq(seq, from + 1, Len(seq))

Min(a, b) == IF a < b THEN a ELSE b

\* Factory stick calibration, the (0x603D, 0x12) response.
FactoryStickCal ==
    << \h00, \h07, \h70, \h00, \h08, \h80, \h00, \h07, \h70,
       \h00, \h07, \h70, \h00, \h08, \h80, \h00, \h07, \h70 >>

\* spi_read_response(addr, len)
spi_read_response(addr, len) ==
    CASE addr = \h6000 /\ len = \h10 -> Fill(0, 16)
      [] addr = \h6050 /\ len = \h0D ->
            << \h32, \h32, \h32, \hFF, \hFF, \hFF, \h32, \h32, \h32,
               \hFF, \hFF, \hFF, \h03 >>
      [] addr = \h603D /\ len = \h12 -> FactoryStickCal
      [] addr = \h8010 /\ len = \h16 -> Fill(\hFF, \h16)
      [] addr = \h6086 /\ len = \h12 ->
            << \h0F, \h30, \h61, \h96, \h30, \hF3,
               \hD4, \h14, \h54, \h41, \h15, \h54,
               \hC7, \h79, \h9C, \h33, \h36, \h63 >>
      [] addr = \h6020 /\ len = \h18 ->
            << \hBE, \hFF, \h3E, \h00, \hF0, \h01,
               \h00, \h40, \h00, \h40, \h00, \h40,
               \hFE, \hFF, \hFE, \hFF, \h08, \h00,
               \hE7, \h3B, \hE7, \h3B, \hE7, \h3B >>
      [] addr = \h8026 /\ len = \h1A -> Fill(\hFF, \h1A)
      [] addr = \h6080 /\ len = \h06 -> << \h50, \hFD, \h00, \h00, \hC6, \h0F >>
      [] OTHER -> Fill(0, len)

\* u32::from_le_bytes of the first four payload bytes.
SpiAddr(subcmd_data) ==
    At(subcmd_data, 0) + At(subcmd_data, 1) * 256
       + At(subcmd_data, 2) * 65536 + At(subcmd_data, 3) * 16777216

\* Mutant of SpiRead: the request header is not echoed.
SpiReadNoEcho(subcmd_data) ==
    IF Len(subcmd_data) >= 5
    THEN [ack |-> \h90,
          data |-> spi_read_response(SpiAddr(subcmd_data), At(subcmd_data, 4))]
    ELSE [ack |-> \h80, data |-> <<>>]

\* The 0x10 arm of handle_subcommand (lines 135-157).
SpiRead(subcmd_data) ==
    IF Len(subcmd_data) >= 5
    THEN [ack |-> \h90,
          data |-> SubSeq(subcmd_data, 1, 4) \o <<At(subcmd_data, 4)>>
                   \o spi_read_response(SpiAddr(subcmd_data), At(subcmd_data, 4))]
    ELSE [ack |-> \h80, data |-> <<>>]

\* handle_subcommand(subcmd_id, subcmd_data): (ack, reply data).
handle_subcommand(subcmd_id, subcmd_data) ==
    CASE subcmd_id = \h02 ->
            [ack |-> \h82,
             data |-> << \h03, \h48, \h03, \h02,
                         \h98, \hB6, \hE9, \h46, \h50, \h6A, \h01, \h01 >>]
      [] subcmd_id = \h03 -> [ack |-> \h80, data |-> <<>>]
      [] subcmd_id = \h04 -> [ack |-> \h83, data |-> <<>>]
      [] subcmd_id = \h08 -> [ack |-> \h80, data |-> <<>>]
      [] subcmd_id = \h10 -> SpiRead(subcmd_data)
      [] subcmd_id = \h21 ->
            [ack |-> \hA0,
             data |-> << \h01, \h00, \hFF, \h00, \h03, \h00, \h05, \h01 >>]
      [] subcmd_id = \h30 -> [ack |-> \h80, data |-> <<>>]
      [] subcmd_id = \h38 -> [ack |-> \h80, data |-> <<>>]
      [] subcmd_id = \h40 -> [ack |-> \h80, data |-> <<>>]
      [] subcmd_id = \h41 -> [ack |-> \h80, data |-> <<>>]
      [] subcmd_id = \h48 -> [ack |-> \h80, data |-> <<>>]
      [] OTHER -> [ack |-> \h80, data |-> <<>>]

\* build_subcommand_reply(timer, subcmd, ack, data): a 50-byte vector.
build_subcommand_reply(t, subcmd, ack, data) ==
    LET copy_len == Min(Len(data), 50 - 14)
    IN [i \in 1..50 |->
          LET k == i - 1
          IN CASE k = 0 -> \h21
               [] k = 1 -> t
               [] k = 5 -> \h00
               [] k = 6 -> \h08
               [] k = 7 -> \h80
               [] k = 8 -> \h00
               [] k = 9 -> \h08
               [] k = 10 -> \h80
               [] k = 12 -> ack
               [] k = 13 -> subcmd
               [] k >= 14 /\ k < 14 + copy_len -> At(data, k - 14)
               [] OTHER -> 0]

\* u8::wrapping_add(1)
WrappingInc(t) == (t + 1) % 256

\* SPI read requests: the 4-byte little-endian address and the length.
SpiRequest(addr, len) ==
    << addr % 256, (addr \div 256) % 256, (addr \div 65536) % 256,
       (addr \div 16777216) % 256, len >>

\* The (address, length) pairs with a canned response in the source.
SpiListed ==
    { <<\h6000, \h10>>, <<\h6050, \h0D>>, <<\h603D, \h12>>, <<\h8010, \h16>>,
      <<\h6086, \h12>>, <<\h6020, \h18>>, <<\h8026, \h1A>>, <<\h6080, \h06>> }

\* Requests that fall to the catch-all: a listed address with another
\* length, unlisted addresses, an address above 16 bits, length 0 and 255.
SpiUnlisted ==
    { <<\h6000, \h11>>, <<\h603D, \h09>>, <<\h6080, \h18>>, <<\h6098, \h12>>,
      <<\h0000, \h00>>, <<\h0001603D, \h12>>, <<\h7000, \hFF>> }

\* The payloads handle_subcommand is called with: SPI reads, SPI reads
\* followed by extra bytes, and payloads shorter than the 5-byte header.
SubcmdPayloads ==
    { SpiRequest(r[1], r[2]) : r \in SpiListed \cup SpiUnlisted }
    \cup { SpiRequest(\h603D, \h12) \o <<\h00, \h00>> }
    \cup { <<>>, <<\h3D>>, <<\h3D, \h60, \h00, \h00>> }

ProtoInit ==
    /\ sc_id = -1
    /\ sc_data = <<>>
    /\ sc_ret = <<>>

\* One call of handle_subcommand on a fresh (id, payload).
HandleSubcommand(id, data) ==
    /\ sc_id = -1
    /\ sc_id' = id
    /\ sc_data' = data
    /\ sc_ret' = handle_subcommand(id, data)
    /\ UNCHANGED notProto

\* The result is dropped; the next call is independent.
DropResult ==
    /\ sc_id # -1
    /\ sc_id' = -1
    /\ sc_data' = <<>>
    /\ sc_ret' = <<>>
    /\ UNCHANGED notProto

ProtoNext ==
    \/ \E id \in 0..255, data \in SubcmdPayloads : HandleSubcommand(id, data)
    \/ DropResult

(***************************************************************************)
(* bt/emulator.rs: run_pairing                                             *)
(***************************************************************************)
\* build_empty_input_report(timer, include_state)
build_empty_input_report(t, include_state) ==
    [i \in 1..50 |->
        LET k == i - 1
        IN CASE k = 0 -> \hA1
             [] k = 1 -> \h30
             [] k = 2 -> t
             [] include_state /\ k = 3 -> \h90
             [] include_state /\ k = 7 -> \h6F
             [] include_state /\ k = 8 -> \hC8
             [] include_state /\ k = 9 -> \h77
             [] include_state /\ k = 10 -> \h16
             [] include_state /\ k = 11 -> \hD8
             [] include_state /\ k = 12 -> \h7D
             [] include_state /\ k = 13 -> \hB0
             [] OTHER -> 0]

\* Lines 297-305: the report type and the subcommand offset of a received
\* buffer; skip is the `continue` taken for a lone 0xA2.
ParseIncoming(data) ==
    LET n == Len(data)
    IN IF n > 0 /\ At(data, 0) = \hA2
       THEN IF n >= 2
            THEN [skip |-> FALSE, report_type |-> At(data, 1), subcmd_offset |-> 11]
            ELSE [skip |-> TRUE, report_type |-> 0, subcmd_offset |-> 0]
       ELSE IF n > 0
            THEN [skip |-> FALSE, report_type |-> At(data, 0), subcmd_offset |-> 10]
            ELSE [skip |-> TRUE, report_type |-> 0, subcmd_offset |-> 0]

\* Lines 307-310: a subcommand report (0x01 or 0x11) long enough to carry
\* the subcommand id.
CarriesSubcommand(data) ==
    LET p == ParseIncoming(data)
    IN ~p.skip /\ p.report_type \in {\h01, \h11} /\ Len(data) > p.subcmd_offset

\* let subcmd_id = data[subcmd_offset]
SubcmdId(data) == At(data, ParseIncoming(data).subcmd_offset)

\* let subcmd_data = if n > subcmd_offset + 1 { &data[subcmd_offset + 1..] } else { &[] }
SubcmdData(data) ==
    LET off == ParseIncoming(data).subcmd_offset
    IN IF Len(data) > off + 1 THEN From(data, off + 1) ELSE <<>>

\* Mutant of PairingComplete: one of the two events is enough.
PairingCompleteEither(vib, player) == vib \/ player

\* Line 331: if vibration_enabled && player_set
PairingComplete(vib, player) == vib /\ player

\* A report from the console: optional 0xA2, report type, nine bytes of
\* counter and rumble data, the subcommand id and its payload.
ConsoleReport(prefixed, report_type, subcmd_id, payload) ==
    (IF prefixed THEN <<\hA2>> ELSE <<>>)
    \o <<report_type>> \o Fill(0, 9) \o <<subcmd_id>> \o payload

\* The buffers the console sends during pairing in the model.
PairingMessages ==
    { ConsoleReport(TRUE, \h01, id, <<>>) : id \in {\h02, \h03, \h30, \h48} }
    \cup { ConsoleReport(FALSE, \h11, id, <<>>) : id \in {\h30, \h48} }
    \cup { ConsoleReport(TRUE, \h01, \h10, SpiRequest(\h603D, \h12)),
           ConsoleReport(TRUE, \h3F, \h48, <<>>),
           SubSeq(ConsoleReport(TRUE, \h01, \h48, <<>>), 1, 11),
           <<\hA2>> }

\* Nothing was written on the interrupt channel in the last step.
NoWrite == [site |-> "none", req |-> <<>>, bytes |-> <<>>]

PairInit ==
    /\ pr_pc = "accepted"
    /\ timer = 0
    /\ vibration_enabled = FALSE
    /\ player_set = FALSE
    /\ device_info_queried = FALSE
    /\ received_first_message = FALSE
    /\ itr_out = NoWrite
    /\ pr_replied = {}

\* Lines 256-266: the locals and the initial empty report; a failed write
\* returns the error.
PairingStart(write_ok) ==
    /\ pr_pc = "accepted"
    /\ UNCHANGED notPair
    /\ vibration_enabled' = FALSE
    /\ player_set' = FALSE
    /\ device_info_queried' = FALSE
    /\ received_first_message' = FALSE
    /\ pr_replied' = {}
    /\ IF write_ok
       THEN /\ itr_out' = [site |-> "initial", req |-> <<>>,
                           bytes |-> build_empty_input_report(0, FALSE)]
            /\ timer' = WrappingInc(0)
            /\ pr_pc' = "loop"
       ELSE /\ itr_out' = NoWrite
            /\ timer' = 0
            /\ pr_pc' = "err"

\* Lines 273-280: read returned Ok(0) or Err: run_pairing returns Err.
PairingReadFailed ==
    /\ pr_pc = "loop"
    /\ UNCHANGED notPair
    /\ pr_pc' = "err"
    /\ itr_out' = NoWrite
    /\ UNCHANGED <<timer, vibration_enabled, player_set, device_info_queried,
                   received_first_message, pr_replied>>

\* Lines 346-351: the neutral report of a cycle; a failed write is only logged.
SendNeutral(write_ok) ==
    /\ itr_out' = IF write_ok
                  THEN [site |-> "neutral", req |-> <<>>,
                        bytes |-> build_empty_input_report(timer, device_info_queried)]
                  ELSE NoWrite
    /\ timer' = WrappingInc(timer)

\* Lines 283-285 and 346-351: the read timed out.
PairingTimeout(write_ok) ==
    /\ pr_pc = "loop"
    /\ UNCHANGED notPair
    /\ SendNeutral(write_ok)
    /\ UNCHANGED <<pr_pc, vibration_enabled, player_set, device_info_queried,
                   received_first_message, pr_replied>>

\* Lines 288-351: a buffer of n > 0 bytes was read.
PairingMessage(data, write_ok) ==
    /\ pr_pc = "loop"
    /\ UNCHANGED notPair
    /\ received_first_message' = TRUE
    /\ IF ParseIncoming(data).skip
       THEN \* continue: nothing is written in this cycle
            /\ itr_out' = NoWrite
            /\ UNCHANGED <<pr_pc, timer, vibration_enabled, player_set,
                           device_info_queried, pr_replied>>
       ELSE IF CarriesSubcommand(data)
       THEN LET subcmd_id == SubcmdId(data)
                r == handle_subcommand(subcmd_id, SubcmdData(data))
                reply == build_subcommand_reply(timer, subcmd_id, r.ack, r.data)
                vib == vibration_enabled \/ subcmd_id = \h48
                player == player_set \/ subcmd_id = \h30
            IN /\ timer' = WrappingInc(timer)
               /\ IF write_ok
                  THEN /\ itr_out' = [site |-> "reply", req |-> data, bytes |-> reply]
                       /\ pr_replied' = pr_replied \cup {subcmd_id}
                       /\ device_info_queried' =
                             (device_info_queried \/ subcmd_id = \h02)
                       /\ vibration_enabled' = vib
                       /\ player_set' = player
                       /\ pr_pc' = IF PairingComplete(vib, player)
                                   THEN "ok" ELSE "loop"
                  ELSE \* write_all(&reply).await? returns the error
                       /\ itr_out' = NoWrite
                       /\ pr_pc' = "err"
                       /\ UNCHANGED <<pr_replied, device_info_queried,
                                      vibration_enabled, player_set>>
       ELSE \* another report type, or too short for a subcommand id
            /\ SendNeutral(write_ok)
            /\ UNCHANGED <<pr_pc, vibration_enabled, player_set,
                           device_info_queried, pr_replied>>

PairNext ==
    \/ \E write_ok \in BOOLEAN : PairingStart(write_ok)
    \/ PairingReadFailed
    \/ \E write_ok \in BOOLEAN : PairingTimeout(write_ok)
    \/ \E data \in PairingMessages, write_ok \in BOOLEAN :
          PairingMessage(data, write_ok)

(***************************************************************************)
(* input.rs: build_bt_report                                               *)
(***************************************************************************)
\* enum Button: the 18 buttons; a ButtonState is the set of those pressed.
Buttons ==
    {"B", "A", "Y", "X", "R", "ZR", "Plus", "R3",
     "DpadDown", "DpadRight", "DpadLeft", "DpadUp", "L", "ZL", "Minus", "L3",
     "Home", "Capture"}

\* if pressed { byte |= mask }, for masks that are distinct bits.
Bit(pressed, mask) == IF pressed THEN mask ELSE 0

\* Mutant of BtByte4: the USB bit order (B=01 A=02 Y=04 X=08) is kept.
BtByte4UsbOrder(b) ==
    Bit("B" \in b, \h01) + Bit("A" \in b, \h02) + Bit("Y" \in b, \h04)
    + Bit("X" \in b, \h08) + Bit("R" \in b, \h40) + Bit("ZR" \in b, \h80)

\* Byte 4: right-side buttons (lines 242-249).
BtByte4(b) ==
    Bit("Y" \in b, \h01) + Bit("X" \in b, \h02) + Bit("B" \in b, \h04)
    + Bit("A" \in b, \h08) + Bit("R" \in b, \h40) + Bit("ZR" \in b, \h80)

\* Byte 5: shared buttons (lines 252-259).
BtByte5(b) ==
    Bit("Minus" \in b, \h01) + Bit("Plus" \in b, \h02) + Bit("R3" \in b, \h04)
    + Bit("L3" \in b, \h08) + Bit("Home" \in b, \h10) + Bit("Capture" \in b, \h20)

\* Byte 6: left-side buttons (lines 262-269).
BtByte6(b) ==
    Bit("DpadDown" \in b, \h01) + Bit("DpadUp" \in b, \h02)
    + Bit("DpadRight" \in b, \h04) + Bit("DpadLeft" \in b, \h08)
    + Bit("L" \in b, \h40) + Bit("ZL" \in b, \h80)

\* f64::clamp
Clamp(x, lo, hi) == IF x < lo THEN lo ELSE IF x > hi THEN hi ELSE x

\* ((cal * 2048.0 / 100.0) + 2048.0).clamp(0.0, 4095.0) as u16, for a
\* calibrated value that is a whole number: the cast truncates.
StickTo12(cal) == Clamp(((cal * 2048) \div 100) + 2048, 0, 4095)

\* The three packed bytes of a stick (lines 277-279 and 285-287).
PackStick(x, y) ==
    << x % 256,
       ((x \div 256) % 16) + ((y % 16) * 16),
       (y \div 16) % 256 >>

\* build_bt_report(input, left_cal, right_cal, timer): buttons is
\* input.buttons, the only field of input the function reads.
build_bt_report(buttons, left_cal, right_cal, t) ==
    << \hA1, \h30, t, \h90,
       BtByte4(buttons), BtByte5(buttons), BtByte6(buttons) >>
    \o PackStick(StickTo12(left_cal[1]), StickTo12(left_cal[2]))
    \o PackStick(StickTo12(right_cal[1]), StickTo12(right_cal[2]))
    \o << \hB0 >>
    \o Fill(0, 36)

\* The button states the builder is called with: at most two pressed.
ReportButtons ==
    {{}} \cup {{a} : a \in Buttons} \cup {{a, b} : a, b \in Buttons}

\* Calibrated stick values, in percent.
StickPercents == {-100, 0, 100}

LeftCals == StickPercents \X StickPercents

RightCals == { <<0, 0>>, <<100, -100>> }

ReportTimers == {0, 255}

ReportInit ==
    /\ rp_in = <<>>
    /\ rp_out = <<>>

\* One call of build_bt_report.
BuildBtReport(buttons, left_cal, right_cal, t) ==
    /\ rp_in = <<>>
    /\ rp_in' = [buttons |-> buttons, left_cal |-> left_cal,
                 right_cal |-> right_cal, timer |-> t]
    /\ rp_out' = build_bt_report(buttons, left_cal, right_cal, t)
    /\ UNCHANGED notReport

\* The report is consumed; the next call is independent.
DropReport ==
    /\ rp_in # <<>>
    /\ rp_in' = <<>>
    /\ rp_out' = <<>>
    /\ UNCHANGED notReport

ReportNext ==
    \/ \E buttons \in ReportButtons, left_cal \in LeftCals,
          right_cal \in RightCals, t \in ReportTimers :
          BuildBtReport(buttons, left_cal, right_cal, t)
    \/ DropReport

(***************************************************************************)
(* input.rs: parse_hid_report and Button::position                         *)
(***************************************************************************)
\* byte & mask != 0, for a mask that is a single bit.
HasBit(byte, mask) == (byte \div mask) % 2 = 1

\* Button::position (lines 138-159): <<byte index in the button field, mask>>.
position(btn) ==
    CASE btn = "B" -> <<0, \h01>>
      [] btn = "A" -> <<0, \h02>>
      [] btn = "Y" -> <<0, \h04>>
      [] btn = "X" -> <<0, \h08>>
      [] btn = "R" -> <<0, \h10>>
      [] btn = "ZR" -> <<0, \h20>>
      [] btn = "Plus" -> <<0, \h40>>
      [] btn = "R3" -> <<0, \h80>>
      [] btn = "DpadDown" -> <<1, \h01>>
      [] btn = "DpadRight" -> <<1, \h02>>
      [] btn = "DpadLeft" -> <<1, \h04>>
      [] btn = "DpadUp" -> <<1, \h08>>
      [] btn = "L" -> <<1, \h10>>
      [] btn = "ZL" -> <<1, \h20>>
      [] btn = "Minus" -> <<1, \h40>>
      [] btn = "L3" -> <<1, \h80>>
      [] btn = "Home" -> <<2, \h01>>
      [] btn = "Capture" -> <<2, \h02>>

\* Mutant of ParseButtons: the fields a and b read each other's bit.
ParseButtonsSwapped(bb) ==
    {btn \in {"A"} : HasBit(At(bb, 0), \h01)}
    \cup {btn \in {"B"} : HasBit(At(bb, 0), \h02)}
    \cup {btn \in Buttons \ {"A", "B"} :
            HasBit(At(bb, position(btn)[1]), position(btn)[2])}

\* The ButtonState literal of parse_hid_report (lines 79-98), as the set of
\* the fields that are true; bb is buttons_bytes.
ParseButtons(bb) ==
    {btn \in {"B"} : HasBit(At(bb, 0), \h01)}
    \cup {btn \in {"A"} : HasBit(At(bb, 0), \h02)}
    \cup {btn \in {"Y"} : HasBit(At(bb, 0), \h04)}
    \cup {btn \in {"X"} : HasBit(At(bb, 0), \h08)}
    \cup {btn \in {"R"} : HasBit(At(bb, 0), \h10)}
    \cup {btn \in {"ZR"} : HasBit(At(bb, 0), \h20)}
    \cup {btn \in {"Plus"} : HasBit(At(bb, 0), \h40)}
    \cup {btn \in {"R3"} : HasBit(At(bb, 0), \h80)}
    \cup {btn \in {"DpadDown"} : HasBit(At(bb, 1), \h01)}
    \cup {btn \in {"DpadRight"} : HasBit(At(bb, 1), \h02)}
    \cup {btn \in {"DpadLeft"} : HasBit(At(bb, 1), \h04)}
    \cup {btn \in {"DpadUp"} : HasBit(At(bb, 1), \h08)}
    \cup {btn \in {"L"} : HasBit(At(bb, 1), \h10)}
    \cup {btn \in {"ZL"} : HasBit(At(bb, 1), \h20)}
    \cup {btn \in {"Minus"} : HasBit(At(bb, 1), \h40)}
    \cup {btn \in {"L3"} : HasBit(At(bb, 1), \h80)}
    \cup {btn \in {"Home"} : HasBit(At(bb, 2), \h01)}
    \cup {btn \in {"Capture"} : HasBit(At(bb, 2), \h02)}

\* unpack_12bit_triplet (lines 55-59).
unpack_12bit_triplet(data) ==
    << At(data, 0) + ((At(data, 1) % 16) * 256),
       (At(data, 1) \div 16) + (At(data, 2) * 16) >>

\* remap_trigger_value (lines 62-68): the f32 product truncated to u8, which
\* for every u8 input equals the integer quotient below.
remap_trigger_value(value) ==
    ((Clamp(value, 36, 240) - 36) * 255) \div 204

\* parse_hid_report (lines 71-111).
parse_hid_report(report) ==
    LET buttons_bytes == SubSeq(report, 4, 6)
        stick1 == SubSeq(report, 7, 9)
        stick2 == SubSeq(report, 10, 12)
    IN [buttons |-> ParseButtons(buttons_bytes),
        buttons_raw |-> buttons_bytes,
        left_stick_raw |-> unpack_12bit_triplet(stick1),
        right_stick_raw |-> unpack_12bit_triplet(stick2),
        left_trigger |-> remap_trigger_value(At(report, 13)),
        right_trigger |-> remap_trigger_value(At(report, 14))]

\* A 64-byte USB report: the button field, the sticks and the triggers at
\* their offsets, and one value in every other byte.
UsbReport(btn, stick1, stick2, lt, rt, other) ==
    [i \in 1..64 |->
        CASE i \in 4..6 -> btn[i - 3]
          [] i \in 7..9 -> stick1[i - 6]
          [] i \in 10..12 -> stick2[i - 9]
          [] i = 14 -> lt
          [] i = 15 -> rt
          [] OTHER -> other]

\* Values of the first two button bytes: nothing, each single bit, mixtures.
ButtonByteValues == {\h00, \h01, \h02, \h04, \h08, \h10, \h20, \h40, \h80,
                     \h83, \hFF}

\* Values of the third button byte, whose bits 2-7 name no button.
ButtonByte2Values == {\h00, \h01, \h02, \h03, \hFC, \hFF}

\* Stick triplets and trigger values of the reports.
StickTriplets == { <<\h00, \h08, \h80>>, <<\hFF, \hFF, \hFF>> }

TriggerValues == {36, 138, 255}

ParseInit ==
    /\ ph_in = <<>>
    /\ ph_out = <<>>

\* One call of parse_hid_report.
ParseHidReport(report) ==
    /\ ph_in = <<>>
    /\ ph_in' = report
    /\ ph_out' = parse_hid_report(report)
    /\ UNCHANGED notParse

\* The parsed state is consumed; the next call is independent.
DropParsed ==
    /\ ph_in # <<>>
    /\ ph_in' = <<>>
    /\ ph_out' = <<>>
    /\ UNCHANGED notParse

ParseNext ==
    \/ \E b0 \in ButtonByteValues, b1 \in ButtonByteValues,
          b2 \in ButtonByte2Values, stick \in StickTriplets,
          trig \in TriggerValues, other \in {\h00, \hFF} :
          ParseHidReport(UsbReport(<<b0, b1, b2>>, stick, <<0, 0, 0>>,
                                   trig, 36, other))
    \/ DropParsed

(***************************************************************************)
(* main.rs: the report channel between usb_processing_loop and the         *)
(* Bluetooth forwarding loop                                               *)
(***************************************************************************)
\* mpsc::channel::<[u8; 50]>(4)
ReportChannelCapacity == 4

\* Number of reports the worker builds in a run of the model.
MaxReports == 7

\* Mutant of try_send: a full channel gives up its oldest report.
try_send_drop_oldest(queue, report) ==
    IF Len(queue) >= ReportChannelCapacity
    THEN [queue |-> Append(Tail(queue), report), result |-> "Ok"]
    ELSE [queue |-> Append(queue, report), result |-> "Ok"]

\* Sender::try_send on the bounded channel: returns at once, Err(Full) and
\* the queue as it was when there is no free slot.
try_send(queue, report) ==
    IF Len(queue) >= ReportChannelCapacity
    THEN [queue |-> queue, result |-> "Full"]
    ELSE [queue |-> Append(queue, report), result |-> "Ok"]

ChanInit ==
    /\ ch_queue = <<>>
    /\ ch_sender_alive = TRUE
    /\ produced = 0
    /\ last_try_send = "none"
    /\ fw_pc = "waiting"
    /\ bt_timer = 0
    /\ ch_accepted = <<>>
    /\ ch_received = <<>>
    /\ ch_dropped = {}

\* usb_processing_loop builds a report and hands it to the channel
\* (lines 481-482 and 598-599); reports are numbered in production order.
WorkerSend ==
    /\ ch_sender_alive
    /\ produced < MaxReports
    /\ LET report == produced + 1
           r == try_send(ch_queue, report)
       IN /\ produced' = report
          /\ ch_queue' = r.queue
          /\ last_try_send' = r.result
          /\ ch_accepted' = IF r.result = "Ok" THEN Append(ch_accepted, report)
                            ELSE ch_accepted
          /\ ch_dropped' = IF r.result = "Ok" THEN ch_dropped
                           ELSE ch_dropped \cup {report}
    /\ UNCHANGED <<ch_sender_alive, fw_pc, bt_timer, ch_received>>
    /\ UNCHANGED notChan

\* usb_processing_loop returns (USB disconnected): report_tx is dropped.
WorkerExit ==
    /\ ch_sender_alive
    /\ ch_sender_alive' = FALSE
    /\ UNCHANGED <<ch_queue, produced, last_try_send, fw_pc, bt_timer,
                   ch_accepted, ch_received, ch_dropped>>
    /\ UNCHANGED notChan

\* accept_connection and run_pairing succeeded: the forwarding loop starts
\* (lines 254-261).
BtConnected ==
    /\ fw_pc = "waiting"
    /\ fw_pc' = "forwarding"
    /\ bt_timer' = 0
    /\ UNCHANGED <<ch_queue, ch_sender_alive, produced, last_try_send,
                   ch_accepted, ch_received, ch_dropped>>
    /\ UNCHANGED notChan

\* While waiting for the console, the 2 s check finds the USB task finished
\* (lines 233-242).
BtWaitUsbGone ==
    /\ fw_pc = "waiting"
    /\ ~ch_sender_alive
    /\ fw_pc' = "done"
    /\ UNCHANGED <<ch_queue, ch_sender_alive, produced, last_try_send,
                   bt_timer, ch_accepted, ch_received, ch_dropped>>
    /\ UNCHANGED notChan

\* One round of the forwarding loop with a report (lines 263-280): recv,
\* stamp the timer, send, poll the control channel. outcome is what the
\* Bluetooth side does: "sent" (poll timed out), "subcmd" (poll answered a
\* subcommand), "send_err" (write failed), "closed" (poll saw a disconnect).
ForwardReport(outcome) ==
    /\ fw_pc = "forwarding"
    /\ ch_queue # <<>>
    /\ ch_received' = Append(ch_received, Head(ch_queue))
    /\ ch_queue' = Tail(ch_queue)
    /\ bt_timer' = IF outcome = "subcmd"
                   THEN WrappingInc(WrappingInc(bt_timer))
                   ELSE WrappingInc(bt_timer)
    /\ fw_pc' = IF outcome \in {"send_err", "closed"} THEN "waiting"
                ELSE "forwarding"
    /\ UNCHANGED <<ch_sender_alive, produced, last_try_send, ch_accepted,
                   ch_dropped>>
    /\ UNCHANGED notChan

\* recv returns None: the channel is empty and the sender is gone
\* (lines 282-285).
ForwardEnd ==
    /\ fw_pc = "forwarding"
    /\ ch_queue = <<>>
    /\ ~ch_sender_alive
    /\ fw_pc' = "done"
    /\ UNCHANGED <<ch_queue, ch_sender_alive, produced, last_try_send,
                   bt_timer, ch_accepted, ch_received, ch_dropped>>
    /\ UNCHANGED notChan

ChanNext ==
    \/ WorkerSend
    \/ WorkerExit
    \/ BtConnected
    \/ BtWaitUsbGone
    \/ \E outcome \in {"sent", "subcmd", "send_err", "closed"} :
          ForwardReport(outcome)
    \/ ForwardEnd

(***************************************************************************)
(* web/state.rs: MitmState                                                 *)
(***************************************************************************)
\* StateSnapshot::default() (lines 117-133); Option is <<>> or <<v>>, the
\* playback speed is written in hundredths.
DefaultSnapshot ==
    [macro_mode |-> FALSE, recording |-> FALSE, playing |-> FALSE,
     current_slot |-> 0, slot_count |-> 0, current_macro_name |-> <<>>,
     usb_connected |-> FALSE, bt_connected |-> FALSE,
     playback_speed |-> 100, looping |-> FALSE, playback_frame |-> 0,
     playback_frame_count |-> 0, playback_input |-> <<>>]

\* The snapshots update is called with: the default one with some fields
\* changed (a flag, a counter, an Option<String>, the speed).
Snapshots ==
    {[DefaultSnapshot EXCEPT !.macro_mode = m, !.current_slot = s,
                             !.current_macro_name = n, !.playback_speed = v] :
        m \in BOOLEAN, s \in {0, 1}, n \in {<<>>, <<"jump">>},
        v \in {100, 50}}

\* Number of calls ms_trace remembers.
TraceLen == 4

\* Mutant of UpdateChanged: every update marks the state changed.
UpdateChangedAlways(inner, snapshot, changed) == TRUE

\* MitmState::update (lines 149-155): the changed flag after the call.
UpdateChanged(inner, snapshot, changed) ==
    IF inner # snapshot THEN TRUE ELSE changed

\* MitmState::update: the stored snapshot after the call.
UpdateInner(inner, snapshot) ==
    IF inner # snapshot THEN snapshot ELSE inner

\* The trace with one more call, cut to its last TraceLen entries.
Traced(trace, call) ==
    LET t == Append(trace, call)
    IN IF Len(t) > TraceLen THEN Tail(t) ELSE t

\* MitmState::new (lines 142-147).
StateInit ==
    /\ ms_inner = DefaultSnapshot
    /\ ms_changed = FALSE
    /\ ms_pop = <<>>
    /\ ms_replaced = FALSE
    /\ ms_trace = <<>>

\* MitmState::update(snapshot).
MitmUpdate(snapshot) ==
    /\ ms_inner' = UpdateInner(ms_inner, snapshot)
    /\ ms_changed' = UpdateChanged(ms_inner, snapshot, ms_changed)
    /\ ms_replaced' = (ms_replaced \/ ms_inner' # ms_inner)
    /\ ms_trace' = Traced(ms_trace, IF ms_inner' # ms_inner THEN "update_new"
                                    ELSE "update_same")
    /\ UNCHANGED ms_pop
    /\ UNCHANGED notState

\* MitmState::pop_if_changed (lines 166-174).
PopIfChanged ==
    /\ ms_changed' = FALSE
    /\ ms_pop' = IF ms_changed THEN <<ms_inner>> ELSE <<>>
    /\ ms_replaced' = FALSE
    /\ ms_trace' = Traced(ms_trace, IF ms_changed THEN "pop_some"
                                    ELSE "pop_none")
    /\ UNCHANGED ms_inner
    /\ UNCHANGED notState

StateNext ==
    \/ \E snapshot \in Snapshots : MitmUpdate(snapshot)
    \/ PopIfChanged

(***************************************************************************)
(* macro_engine/storage.rs: the binary format and the index                *)
(***************************************************************************)
\* b"MAC2" and b"MACO"
MAGIC == <<\h4D, \h41, \h43, \h32>>

MAGIC_V1 == <<\h4D, \h41, \h43, \h4F>>

FORMAT_VERSION == 2

REPORT_SIZE == 64

HEADER_SIZE == 16

FRAME_SIZE == 8 + REPORT_SIZE

\* Timestamps are u64 and can exceed what the model's integers hold, so a
\* u64 is written as its 8 little-endian bytes and a u32 as its 4.
\* `ts as u32` keeps the low 4 bytes.
AsU32(u64) == SubSeq(u64, 1, 4)

\* a + b on u64, wrapping: byte-wise addition with carry.
RECURSIVE AddBytes(_, _, _)
AddBytes(a, b, carry) ==
    IF a = <<>> THEN <<>>
    ELSE <<(Head(a) + Head(b) + carry) % 256>>
         \o AddBytes(Tail(a), Tail(b), (Head(a) + Head(b) + carry) \div 256)

AddU64(a, b) == AddBytes(a, b, 0)

\* a <= b on little-endian byte strings of one length.
RECURSIVE LeqBytes(_, _)
LeqBytes(a, b) ==
    IF a = <<>> THEN TRUE
    ELSE IF a[Len(a)] # b[Len(b)] THEN a[Len(a)] < b[Len(b)]
    ELSE LeqBytes(SubSeq(a, 1, Len(a) - 1), SubSeq(b, 1, Len(b) - 1))

\* u32 / d for a small divisor d: long division from the top byte; the
\* result is <<quotient, remainder>>.
RECURSIVE DivBytes(_, _)
DivBytes(u32, d) ==
    IF u32 = <<>> THEN <<0, 0>>
    ELSE LET hi == DivBytes(Tail(u32), d)
             cur == hi[2] * 256 + Head(u32)
         IN <<hi[1] * 256 + (cur \div d), cur % d>>

\* to_le_bytes of an n-byte unsigned integer.
RECURSIVE ToLeBytes(_, _)
ToLeBytes(v, n) ==
    IF n = 0 THEN <<>> ELSE <<v % 256>> \o ToLeBytes(v \div 256, n - 1)

\* from_le_bytes
RECURSIVE FromLeBytes(_)
FromLeBytes(bytes) ==
    IF bytes = <<>> THEN 0 ELSE Head(bytes) + 256 * FromLeBytes(Tail(bytes))

\* The decimal digits of a natural number, as format!("{}") writes them.
Digits == <<"0", "1", "2", "3", "4", "5", "6", "7", "8", "9">>

RECURSIVE Decimal(_)
Decimal(n) ==
    IF n < 10 THEN Digits[n + 1] ELSE Decimal(n \div 10) \o Digits[(n % 10) + 1]

\* format!("{id:03}"): zero-padded to at least three digits.
Fmt03(id) ==
    IF id < 10 THEN "00" \o Decimal(id)
    ELSE IF id < 100 THEN "0" \o Decimal(id)
    ELSE Decimal(id)

\* format!("{id:03}_{name}.bin")
MacroFilename(id, name) == Fmt03(id) \o "_" \o name \o ".bin"

\* Mutant of next_id: the number of entries plus one.
next_id_by_count(index) == Len(index) + 1

\* next_id (lines 71-73): the largest id of the index plus 1, 1 when empty.
next_id(index) ==
    IF index = <<>> THEN 1
    ELSE (CHOOSE m \in {index[i].id : i \in 1..Len(index)} :
            \A i \in 1..Len(index) : index[i].id <= m) + 1

\* The names that hold a path separator: macros_dir.join puts such a file
\* in a subdirectory, which does not exist.
InSubdirectory(name) == name \in {"a/b"}

\* chrono_now (lines 191-200): the Unix time in seconds, as a string; the
\* wall clock reads the same throughout a run.
chrono_now == "1700000000"

\* The directory with one more file, or one file replaced (fs::write).
WriteFile(files, filename, data) ==
    [f \in DOMAIN files \cup {filename} |->
        IF f = filename THEN data ELSE files[f]]

\* fs::rename of an existing file, replacing the target.
RenameFile(files, old, new) ==
    [f \in (DOMAIN files \ {old}) \cup {new} |->
        IF f = new THEN files[old] ELSE files[f]]

\* The bytes save_macro writes (lines 92-111): header, then the frames.
\* The frame count of the model's lists is far below 2^32, so
\* `frames.len() as u32` is the length.
RECURSIVE FrameBytes(_)
FrameBytes(frames) ==
    IF frames = <<>> THEN <<>>
    ELSE Head(frames)[1] \o Head(frames)[2]
         \o FrameBytes(Tail(frames))

MacroFileData(frames) ==
    MAGIC \o ToLeBytes(FORMAT_VERSION, 2) \o ToLeBytes(REPORT_SIZE, 2)
    \o ToLeBytes(Len(frames), 4)
    \o AsU32(frames[Len(frames)][1])
    \o FrameBytes(frames)

\* save_index (lines 57-69): a failed write leaves index.json as it was.
save_index(old, index, io_index) == IF io_index = "ok" THEN index ELSE old

\* save_macro (lines 77-131). name is <<>> (None) or <<n>>; io gives the
\* outcome of the two writes, and the file write fails on its own when the
\* file would be in a subdirectory. Returns the directory and the id.
save_macro(files, index, frames, name, io) ==
    IF frames = <<>> THEN [files |-> files, index |-> index, ret |-> <<>>]
    ELSE
      LET id == next_id(index)
          default_name == "macro_" \o Decimal(id)
          nm == IF name = <<>> THEN default_name ELSE name[1]
          filename == MacroFilename(id, nm)
          duration_us == AsU32(frames[Len(frames)][1])
          entry == [id |-> id, name |-> nm, filename |-> filename,
                    frame_count |-> Len(frames),
                    duration_ms |-> DivBytes(duration_us, 1000)[1],
                    created |-> chrono_now]
      IN IF io.write # "ok" \/ InSubdirectory(nm)
         THEN [files |-> files, index |-> index, ret |-> <<>>]
         ELSE [files |-> WriteFile(files, filename, MacroFileData(frames)),
               index |-> save_index(index, Append(index, entry), io.index),
               ret |-> <<id>>]

\* Position of the first entry with the id, 0 when there is none.
FindEntry(index, macro_id) ==
    IF \E i \in 1..Len(index) : index[i].id = macro_id
    THEN CHOOSE i \in 1..Len(index) :
            /\ index[i].id = macro_id
            /\ \A j \in 1..(i - 1) : index[j].id # macro_id
    ELSE 0

\* get_macro_info (lines 137-141): <<>> or <<entry>>.
get_macro_info(index, macro_id) ==
    IF FindEntry(index, macro_id) = 0 THEN <<>>
    ELSE <<index[FindEntry(index, macro_id)]>>

\* get_slot_count (lines 181-183).
get_slot_count(index) == Len(index)

\* get_macro_id_by_slot (lines 185-188): <<>> or <<id>>.
get_macro_id_by_slot(index, slot) ==
    IF slot < Len(index) THEN <<index[slot + 1].id>> ELSE <<>>

\* rename_macro (lines 143-159). io gives the outcome of fs::rename and of
\* the index write; the rename fails on its own when the new file would be
\* in a subdirectory, and its result is ignored.
rename_macro(files, index, macro_id, new_name, io) ==
    LET i == FindEntry(index, macro_id)
    IN IF i = 0 THEN [files |-> files, index |-> index, ret |-> FALSE]
       ELSE
         LET old == index[i].filename
             new_filename == MacroFilename(macro_id, new_name)
             renamed == /\ old \in DOMAIN files
                        /\ io.rename = "ok"
                        /\ ~InSubdirectory(new_name)
             entry == [index[i] EXCEPT !.name = new_name,
                                       !.filename = new_filename]
         IN [files |-> IF renamed THEN RenameFile(files, old, new_filename)
                       ELSE files,
             index |-> save_index(index, [index EXCEPT ![i] = entry], io.index),
             ret |-> TRUE]

\* The entries retain keeps: those with another id.
RECURSIVE Retain(_, _)
Retain(index, macro_id) ==
    IF index = <<>> THEN <<>>
    ELSE IF Head(index).id = macro_id THEN Retain(Tail(index), macro_id)
    ELSE <<Head(index)>> \o Retain(Tail(index), macro_id)

\* delete_macro (lines 161-179). io gives the outcome of fs::remove_file,
\* whose result is ignored, and of the index write.
delete_macro(files, index, macro_id, io) ==
    LET kept == Retain(index, macro_id)
        gone == {index[i].filename : i \in {j \in 1..Len(index) :
                                              index[j].id = macro_id}}
        deleted == Len(kept) < Len(index)
    IN [files |-> IF io.remove = "ok"
                  THEN [f \in DOMAIN files \ gone |-> files[f]]
                  ELSE files,
        index |-> IF deleted THEN save_index(index, kept, io.index) ELSE index,
        ret |-> deleted]

\* Number of entries the index holds at most in a run of the model.
MaxMacros == 2

\* Number of store and recorder calls in a run of the model.
MaxCalls == 4

\* One more call is made.
Called ==
    /\ st_calls < MaxCalls
    /\ st_calls' = st_calls + 1

\* The u64 of a number the model's integers hold.
U64(n) == ToLeBytes(n, 8)

\* 2^32 + 5 microseconds, a little under 72 minutes.
LongPause == <<5, 0, 0, 0, 1, 0, 0, 0>>

\* A 64-byte HID report with one byte value throughout.
FrameReport == Fill(\h09, 64)

\* The frame lists save_macro is called with: none, three frames 1000 us
\* apart, one frame later than 2^32 us.
FrameLists ==
    { <<>>,
      << <<U64(0), FrameReport>>, <<U64(1000), FrameReport>>,
         <<U64(2000), FrameReport>> >>,
      << <<LongPause, FrameReport>> >> }

\* The names save is called with (None in main.rs) and rename is called with.
SaveNames == { <<>>, <<"jump">> }

RenameNames == { "run", "a/b" }

IoOutcomes == {"ok", "fail"}

\* The outcomes of the I/O calls named by keys: at most one of them fails.
IoOf(keys) ==
    {io \in [keys -> IoOutcomes] :
        Cardinality({k \in keys : io[k] = "fail"}) <= 1}

\* No injected I/O failure in the outcomes of a call.
IoClean(io) == \A k \in DOMAIN io : io[k] = "ok"

NoIo == [none |-> "ok"]

StoreInit ==
    /\ fs_files = <<>>
    /\ fs_index = <<>>
    /\ rec_recording = FALSE
    /\ rec_frames = <<>>
    /\ rec_elapsed = <<>>
    /\ st_op = [op |-> "new", n |-> 0, ret |-> <<>>, io |-> NoIo,
                faults |-> FALSE,
                ok |-> FALSE]
    /\ st_calls = 0

\* storage::save_macro(macros_dir, frames, name).
SaveMacro(frames, name, io) ==
    /\ Len(fs_index) < MaxMacros
    /\ Called
    /\ LET r == save_macro(fs_files, fs_index, frames, name, io)
       IN /\ fs_files' = r.files
          /\ fs_index' = r.index
          /\ st_op' = [op |-> "save_macro", n |-> Len(frames), ret |-> r.ret,
                       io |-> io,
                       faults |-> (st_op.faults \/ ~IoClean(io)),
                       ok |-> FALSE]
    /\ UNCHANGED <<rec_recording, rec_frames, rec_elapsed>>
    /\ UNCHANGED notStore

\* storage::rename_macro(macros_dir, macro_id, new_name).
RenameMacro(macro_id, new_name, io) ==
    /\ Called
    /\ LET r == rename_macro(fs_files, fs_index, macro_id, new_name, io)
       IN /\ fs_files' = r.files
          /\ fs_index' = r.index
          /\ st_op' = [op |-> "rename_macro", n |-> 0, ret |-> <<>>, io |-> io,
                       ok |-> r.ret,
                       faults |-> (st_op.faults \/ ~IoClean(io))]
    /\ UNCHANGED <<rec_recording, rec_frames, rec_elapsed>>
    /\ UNCHANGED notStore

\* storage::delete_macro(macros_dir, macro_id).
DeleteMacro(macro_id, io) ==
    /\ Called
    /\ LET r == delete_macro(fs_files, fs_index, macro_id, io)
       IN /\ fs_files' = r.files
          /\ fs_index' = r.index
          /\ st_op' = [op |-> "delete_macro", n |-> 0, ret |-> <<>>, io |-> io,
                       ok |-> r.ret,
                       faults |-> (st_op.faults \/ ~IoClean(io))]
    /\ UNCHANGED <<rec_recording, rec_frames, rec_elapsed>>
    /\ UNCHANGED notStore

StoreNext ==
    \/ \E frames \in FrameLists, name \in SaveNames,
          io \in IoOf({"write", "index"}) :
          SaveMacro(frames, name, io)
    \/ \E macro_id \in 1..(MaxMacros + 1), new_name \in RenameNames,
          io \in IoOf({"rename", "index"}) :
          RenameMacro(macro_id, new_name, io)
    \/ \E macro_id \in 1..(MaxMacros + 1),
          io \in IoOf({"remove", "index"}) :
          DeleteMacro(macro_id, io)

(***************************************************************************)
(* macro_engine/recorder.rs: MacroRecorder                                 *)
(***************************************************************************)
\* The time that passes before an add_frame call: none, 1000 us, 2^32 + 5 us.
Pauses == {U64(0), U64(1000), LongPause}

\* Mutant of SaveFramesAfter: save leaves the buffer as it is.
SaveFramesKept(frames) == frames

\* MacroRecorder::save, line 59: self.frames.clear().
SaveFramesAfter(frames) == <<>>

\* Mutant of RecStart: the frames of the recording before are kept.
RecStartKeepsFrames ==
    /\ Called
    /\ rec_elapsed' = <<U64(0)>>
    /\ rec_recording' = TRUE
    /\ st_op' = [op |-> "start", n |-> 0, ret |-> <<>>, io |-> NoIo,
                 faults |-> st_op.faults,
                 ok |-> FALSE]
    /\ UNCHANGED <<fs_files, fs_index, rec_frames>>
    /\ UNCHANGED notStore

\* MacroRecorder::start (lines 25-30).
RecStart ==
    /\ Called
    /\ rec_frames' = <<>>
    /\ rec_elapsed' = <<U64(0)>>
    /\ rec_recording' = TRUE
    /\ st_op' = [op |-> "start", n |-> 0, ret |-> <<>>, io |-> NoIo,
                 faults |-> st_op.faults,
                 ok |-> FALSE]
    /\ UNCHANGED <<fs_files, fs_index>>
    /\ UNCHANGED notStore

\* Time passes, then MacroRecorder::add_frame(raw_report) (lines 33-42).
RecAddFrame(pause, raw_report) ==
    /\ Called
    /\ rec_elapsed' = IF rec_elapsed = <<>> THEN <<>>
                      ELSE <<AddU64(rec_elapsed[1], pause)>>
    /\ rec_frames' =
          IF ~rec_recording THEN rec_frames
          ELSE Append(rec_frames,
                      <<IF rec_elapsed' = <<>> THEN U64(0) ELSE rec_elapsed'[1],
                        raw_report>>)
    /\ st_op' = [op |-> "add_frame", n |-> 0, ret |-> <<>>, io |-> NoIo,
                 faults |-> st_op.faults,
                 ok |-> FALSE]
    /\ UNCHANGED <<fs_files, fs_index, rec_recording>>
    /\ UNCHANGED notStore

\* MacroRecorder::stop (lines 45-54): returns (frame_count, duration_us).
RecStop ==
    /\ Called
    /\ rec_recording' = FALSE
    /\ st_op' = [op |-> "stop", n |-> 0,
                 ret |-> <<Len(rec_frames),
                           IF rec_frames = <<>> THEN U64(0)
                           ELSE rec_frames[Len(rec_frames)][1]>>,
                 io |-> NoIo, faults |-> st_op.faults,
                 ok |-> FALSE]
    /\ UNCHANGED <<fs_files, fs_index, rec_frames, rec_elapsed>>
    /\ UNCHANGED notStore

\* MacroRecorder::save(macros_dir, name) (lines 57-61).
RecSave(name, io) ==
    /\ Len(fs_index) < MaxMacros
    /\ Called
    /\ LET result == save_macro(fs_files, fs_index, rec_frames, name, io)
       IN /\ fs_files' = result.files
          /\ fs_index' = result.index
          /\ rec_frames' = SaveFramesAfter(rec_frames)
          /\ st_op' = [op |-> "save", n |-> Len(rec_frames),
                       ret |-> result.ret, io |-> io,
                       faults |-> (st_op.faults \/ ~IoClean(io)),
                       ok |-> FALSE]
    /\ UNCHANGED <<rec_recording, rec_elapsed>>
    /\ UNCHANGED notStore

RecorderNext ==
    \/ RecStart
    \/ \E pause \in Pauses : RecAddFrame(pause, FrameReport)
    \/ RecStop
    \/ \E name \in SaveNames, io \in IoOf({"write", "index"}) :
          RecSave(name, io)

(***************************************************************************)
(* macro_engine/player.rs: MacroPlayer                                     *)
(***************************************************************************)
\* SPEED_PRESETS (line 13), in thousandths.
SPEED_PRESETS == <<250, 500, 1000, 2000, 4000>>

\* Clock step and end of the clock of a run of the model, in microseconds.
PlayTickUs == 1000

MaxPlayUs == 3000

\* A 64-byte report that tells the frames of a macro apart.
ReportOf(k) == Fill(k, 64)

\* The outcome of two writes that are served.
IoServed == [write |-> "ok", index |-> "ok"]

\* The macros directory the player loads from:
\*   1: three frames at 0, 1000 and 2000 us, saved by save_macro;
\*   2: two frames, both at 1000 us, saved by save_macro;
\*   3: the file of 1 cut after its first frame (header count still 3);
\*   4: a file with the "MACO" magic of the Python format, one frame at 0;
\*   5: a file that does not start with a known magic;
\*   6: a file shorter than a header;
\*   7: an entry whose file is missing.
PlayerFrames1 ==
    << <<U64(0), ReportOf(1)>>, <<U64(1000), ReportOf(2)>>,
       <<U64(2000), ReportOf(3)>> >>

PlayerFrames2 == << <<U64(1000), ReportOf(1)>>, <<U64(1000), ReportOf(2)>> >>

PlayerEntry(id, name) ==
    [id |-> id, name |-> name, filename |-> MacroFilename(id, name),
     frame_count |-> 1, duration_ms |-> 0, created |-> chrono_now]

PlayerDir ==
    LET d1 == save_macro(<<>>, <<>>, PlayerFrames1, <<>>, IoServed)
        d2 == save_macro(d1.files, d1.index, PlayerFrames2, <<>>, IoServed)
        one == << <<U64(0), ReportOf(1)>> >>
        f3 == WriteFile(d2.files, MacroFilename(3, "cut"),
                        SubSeq(MacroFileData(PlayerFrames1), 1,
                               HEADER_SIZE + FRAME_SIZE))
        f4 == WriteFile(f3, MacroFilename(4, "python"),
                        MAGIC_V1 \o From(MacroFileData(one), 4))
        f5 == WriteFile(f4, MacroFilename(5, "other"),
                        <<0, 0, 0, 0>> \o From(MacroFileData(one), 4))
        f6 == WriteFile(f5, MacroFilename(6, "short"), MAGIC)
    IN [files |-> f6,
        index |-> d2.index \o << PlayerEntry(3, "cut"), PlayerEntry(4, "python"),
                                 PlayerEntry(5, "other"), PlayerEntry(6, "short"),
                                 PlayerEntry(7, "gone") >>]

\* MacroPlayer::load (lines 43-98) on a player whose fields are in p: the
\* fields after the call and the value returned. io is the outcome of
\* File::open and Mmap::map.
load(p, files, index, macro_id, io) ==
    LET info == get_macro_info(index, macro_id)
        unchanged == [mmap |-> p.mmap, frame_count |-> p.frame_count,
                      frame_index |-> p.frame_index,
                      last_report |-> p.last_report, ret |-> FALSE]
        closed == [unchanged EXCEPT !.mmap = <<>>]
    IN IF info = <<>> THEN unchanged
       ELSE IF info[1].filename \notin DOMAIN files THEN unchanged
       ELSE IF io # "ok" THEN closed
       ELSE LET mmap == files[info[1].filename]
            IN IF Len(mmap) < HEADER_SIZE THEN closed
               ELSE IF SubSeq(mmap, 1, 4) # MAGIC /\ SubSeq(mmap, 1, 4) # MAGIC_V1
               THEN closed
               ELSE [mmap |-> <<mmap>>,
                     frame_count |-> FromLeBytes(SubSeq(mmap, 9, 12)),
                     frame_index |-> 0,
                     last_report |-> <<>>,
                     ret |-> TRUE]

\* Mutant of set_speed: the value is taken as given.
set_speed_unclamped(speed) == speed

\* MacroPlayer::set_speed (lines 121-124).
set_speed(speed) ==
    Clamp(speed, SPEED_PRESETS[1], SPEED_PRESETS[Len(SPEED_PRESETS)])

\* |a - b|
AbsDiff(a, b) == IF a < b THEN b - a ELSE a - b

\* MacroPlayer::cycle_speed (lines 127-134): 0.01 is 10 thousandths.
cycle_speed(speed) ==
    LET hits == {i \in 1..Len(SPEED_PRESETS) : AbsDiff(SPEED_PRESETS[i], speed) < 10}
        current_idx == IF hits = {} THEN 2
                       ELSE (CHOOSE i \in hits : \A j \in hits : i <= j) - 1
        next_idx == (current_idx + 1) % Len(SPEED_PRESETS)
    IN set_speed(SPEED_PRESETS[next_idx + 1])

\* Mutant of FrameDue: a frame is due only after its timestamp has passed.
FrameDueLater(ts_us, elapsed_us) ==
    ts_us # U64(elapsed_us) /\ LeqBytes(ts_us, U64(elapsed_us))

\* get_frame, line 155: ts_us <= elapsed_us.
FrameDue(ts_us, elapsed_us) == LeqBytes(ts_us, U64(elapsed_us))

\* The while loop of get_frame (lines 147-163): st holds frame_index,
\* last_report and the number of the frame last_report was copied from.
RECURSIVE AdvanceFrames(_, _, _, _)
AdvanceFrames(mmap, frame_count, elapsed_us, st) ==
    LET offset == HEADER_SIZE + st.frame_index * FRAME_SIZE
    IN IF st.frame_index >= frame_count THEN st
       ELSE IF offset + FRAME_SIZE > Len(mmap) THEN st
       ELSE IF FrameDue(SubSeq(mmap, offset + 1, offset + 8), elapsed_us)
       THEN AdvanceFrames(mmap, frame_count, elapsed_us,
                [frame_index |-> st.frame_index + 1,
                 last_report |-> <<SubSeq(mmap, offset + 9, offset + 72)>>,
                 last_idx |-> st.frame_index + 1])
       ELSE st

\* (elapsed.as_micros() as f64 * self.speed) as u64, for speeds that are
\* whole thousandths.
ElapsedUs(start, t, speed) == ((t - start) * speed) \div 1000

PlayerInit ==
    /\ pl_playing = FALSE
    /\ pl_looping = FALSE
    /\ pl_speed = 1000
    /\ pl_mmap = <<>>
    /\ pl_frame_count = 0
    /\ pl_frame_index = 0
    /\ pl_start = <<>>
    /\ pl_last_report = <<>>
    /\ pl_now = 0
    /\ pl_op = [op |-> "new", arg |-> 0, ret |-> <<>>, idx |-> 0, ok |-> FALSE]
    /\ pl_last_idx = 0
    /\ pl_run = [looping |-> FALSE, steady |-> FALSE, finals |-> 0]

\* The fields load reads and writes.
PlayerFields ==
    [mmap |-> pl_mmap, frame_count |-> pl_frame_count,
     frame_index |-> pl_frame_index, last_report |-> pl_last_report]

\* MacroPlayer::load(macros_dir, macro_id).
PlayerLoad(macro_id, io) ==
    /\ LET r == load(PlayerFields, PlayerDir.files, PlayerDir.index, macro_id, io)
       IN /\ pl_mmap' = r.mmap
          /\ pl_frame_count' = r.frame_count
          /\ pl_frame_index' = r.frame_index
          /\ pl_last_report' = r.last_report
          /\ pl_last_idx' = IF r.ret THEN 0 ELSE pl_last_idx
          /\ pl_op' = [op |-> "load", arg |-> 0, ret |-> <<>>, idx |-> 0,
                       ok |-> r.ret]
    /\ pl_run' = [pl_run EXCEPT !.steady = FALSE]
    /\ UNCHANGED <<pl_playing, pl_looping, pl_speed, pl_start, pl_now>>
    /\ UNCHANGED notPlayer

\* MacroPlayer::start(looping) (lines 101-112).
PlayerStart(looping) ==
    /\ IF pl_mmap = <<>> \/ pl_frame_count = 0
       THEN /\ pl_op' = [op |-> "start", arg |-> 0, ret |-> <<>>, idx |-> 0,
                         ok |-> FALSE]
            /\ UNCHANGED <<pl_playing, pl_looping, pl_frame_index, pl_start,
                           pl_last_report, pl_last_idx, pl_run>>
       ELSE /\ pl_playing' = TRUE
            /\ pl_looping' = looping
            /\ pl_frame_index' = 0
            /\ pl_start' = <<pl_now>>
            /\ pl_last_report' = <<>>
            /\ pl_last_idx' = 0
            /\ pl_op' = [op |-> "start", arg |-> 0, ret |-> <<>>, idx |-> 0,
                         ok |-> TRUE]
            /\ pl_run' = [looping |-> looping, steady |-> (pl_speed = 1000),
                          finals |-> 0]
    /\ UNCHANGED <<pl_speed, pl_mmap, pl_frame_count, pl_now>>
    /\ UNCHANGED notPlayer

\* MacroPlayer::stop (lines 114-118).
PlayerStop ==
    /\ pl_playing' = FALSE
    /\ pl_looping' = FALSE
    /\ pl_op' = [op |-> "stop", arg |-> 0, ret |-> <<>>, idx |-> 0, ok |-> FALSE]
    /\ UNCHANGED <<pl_speed, pl_mmap, pl_frame_count, pl_frame_index, pl_start,
                   pl_last_report, pl_now, pl_last_idx, pl_run>>
    /\ UNCHANGED notPlayer

\* MacroPlayer::set_speed(speed).
PlayerSetSpeed(speed) ==
    /\ pl_speed' = set_speed(speed)
    /\ pl_op' = [op |-> "set_speed", arg |-> speed, ret |-> <<>>, idx |-> 0, ok |-> FALSE]
    /\ pl_run' = [pl_run EXCEPT !.steady = FALSE]
    /\ UNCHANGED <<pl_playing, pl_looping, pl_mmap, pl_frame_count,
                   pl_frame_index, pl_start, pl_last_report, pl_now, pl_last_idx>>
    /\ UNCHANGED notPlayer

\* MacroPlayer::cycle_speed().
PlayerCycleSpeed ==
    /\ pl_speed' = cycle_speed(pl_speed)
    /\ pl_op' = [op |-> "cycle_speed", arg |-> 0, ret |-> <<>>, idx |-> 0, ok |-> FALSE]
    /\ pl_run' = [pl_run EXCEPT !.steady = FALSE]
    /\ UNCHANGED <<pl_playing, pl_looping, pl_mmap, pl_frame_count,
                   pl_frame_index, pl_start, pl_last_report, pl_now, pl_last_idx>>
    /\ UNCHANGED notPlayer

\* MacroPlayer::get_frame (lines 139-179).
PlayerGetFrame ==
    /\ IF ~pl_playing \/ pl_mmap = <<>> \/ pl_start = <<>>
       THEN /\ pl_op' = [op |-> "get_frame", arg |-> 0, ret |-> <<>>, idx |-> 0, ok |-> FALSE]
            /\ UNCHANGED <<pl_playing, pl_frame_index, pl_start, pl_last_report,
                           pl_last_idx, pl_run>>
       ELSE LET st == AdvanceFrames(pl_mmap[1], pl_frame_count,
                          ElapsedUs(pl_start[1], pl_now, pl_speed),
                          [frame_index |-> pl_frame_index,
                           last_report |-> pl_last_report,
                           last_idx |-> pl_last_idx])
                done == st.frame_index >= pl_frame_count
                idx == IF st.last_report = <<>> THEN 0 ELSE st.last_idx
            IN /\ pl_playing' = (IF done /\ ~pl_looping THEN FALSE ELSE TRUE)
               /\ pl_frame_index' = IF done /\ pl_looping THEN 0
                                    ELSE st.frame_index
               /\ pl_start' = IF done /\ pl_looping THEN <<pl_now>> ELSE pl_start
               /\ pl_last_report' = IF done /\ ~pl_looping THEN <<>>
                                    ELSE st.last_report
               /\ pl_last_idx' = IF done /\ ~pl_looping THEN 0 ELSE st.last_idx
               /\ pl_op' = [op |-> "get_frame", arg |-> 0,
                            ret |-> st.last_report, idx |-> idx, ok |-> FALSE]
               /\ pl_run' = [pl_run EXCEPT !.finals =
                               IF idx # 0 /\ idx = pl_frame_count
                               THEN Min(@ + 1, 2) ELSE @]
    /\ UNCHANGED <<pl_looping, pl_speed, pl_mmap, pl_frame_count, pl_now>>
    /\ UNCHANGED notPlayer

\* Time passes.
PlayerTick ==
    /\ pl_now < MaxPlayUs
    /\ pl_now' = pl_now + PlayTickUs
    /\ pl_op' = [op |-> "tick", arg |-> 0, ret |-> <<>>, idx |-> 0, ok |-> FALSE]
    /\ UNCHANGED <<pl_playing, pl_looping, pl_speed, pl_mmap, pl_frame_count,
                   pl_frame_index, pl_start, pl_last_report, pl_last_idx, pl_run>>
    /\ UNCHANGED notPlayer

\* The speeds set_speed is called with, in thousandths: below the range,
\* inside it off the presets, above it.
SpeedInputs == {125, 3000, 8000}

PlayerNext ==
    \/ \E macro_id \in 1..8, io \in IoOutcomes : PlayerLoad(macro_id, io)
    \/ \E looping \in BOOLEAN : PlayerStart(looping)
    \/ PlayerStop
    \/ \E speed \in SpeedInputs : PlayerSetSpeed(speed)
    \/ PlayerCycleSpeed
    \/ PlayerGetFrame
    \/ PlayerTick

(***************************************************************************)
(* macro_engine/controller.rs: MacroController                             *)
(***************************************************************************)
\* Number of controller steps in a run of the model.
MaxCmds == 6

\* What a step of the controller leaves alone besides the parts it names.
ctrlOthers == <<comboVars, protoVars, pairVars, reportVars, parseVars,
                chanVars, stateVars, lockVars, supVars, sessVars, downVars,
                hidVars, liveVars, workVars, indexVars,
                setupVars, st_op, st_calls>>

ctrlRecorder == <<rec_recording, rec_frames, rec_elapsed>>

ctrlDir == <<fs_files, fs_index>>

\* One frame, 1000 us after the start of a recording.
CtrlFrames == << <<U64(1000), FrameReport>> >>

\* The macros directories a controller is constructed on: empty, one, two
\* and three macros, each saved by save_macro.
CtrlDirs ==
    LET d0 == [files |-> <<>>, index |-> <<>>]
        d1 == save_macro(d0.files, d0.index, CtrlFrames, <<>>, IoServed)
        d2 == save_macro(d1.files, d1.index, CtrlFrames, <<>>, IoServed)
        d3 == save_macro(d2.files, d2.index, CtrlFrames, <<>>, IoServed)
    IN { d0, [files |-> d1.files, index |-> d1.index],
         [files |-> d2.files, index |-> d2.index],
         [files |-> d3.files, index |-> d3.index] }

\* MacroEffect::none() (lines 44-50) and the other effects: the name of the
\* LED pattern, "" for None, and the broadcast flag.
MacroEffect(led, broadcast_macros) ==
    [led |-> led, broadcast_macros |-> broadcast_macros]

MacroEffectNone == MacroEffect("", FALSE)

\* refresh_cache (lines 112-117): the cached count and name for a slot.
refresh_cache(index, slot) ==
    LET id == get_macro_id_by_slot(index, slot)
        info == IF id = <<>> THEN <<>> ELSE get_macro_info(index, id[1])
    IN [count |-> get_slot_count(index),
        name |-> IF info = <<>> THEN <<>> ELSE <<info[1].name>>]

\* Where a command comes from: the combo dispatcher (main.rs lines 512-584)
\* or the web interface (main.rs lines 356-452, web/state.rs lines 26-43).
Origins == {"combo", "web"}

\* The history of a step: the command, where it came from, whether its I/O
\* was served, its effect, and the slot and counts it started from.
CtrlStep(cmd, arg, effect, origin, served) ==
    /\ ct_built
    /\ ct_cmds < MaxCmds
    /\ ct_cmds' = ct_cmds + 1
    /\ ct_op' = [cmd |-> cmd, arg |-> arg, effect |-> effect,
                 slot |-> current_slot, count |-> Len(fs_index),
                 cached |-> cached_slot_count, origin |-> origin,
                 served |-> served]
    /\ UNCHANGED ct_built
    /\ UNCHANGED ctrlOthers

CtrlDone(cmd, arg, effect) == CtrlStep(cmd, arg, effect, "web", TRUE)

\* The cache after refresh_cache on the directory and slot of the next state.
CtrlRefresh ==
    /\ cached_slot_count' = refresh_cache(fs_index', current_slot').count
    /\ cached_macro_name' = refresh_cache(fs_index', current_slot').name

CtrlInit ==
    /\ ct_built = FALSE
    /\ ct_macro_mode = FALSE
    /\ current_slot = 0
    /\ cached_slot_count = 0
    /\ cached_macro_name = <<>>
    /\ ct_op = [cmd |-> "none", arg |-> 0, effect |-> MacroEffectNone,
                slot |-> 0, count |-> 0, cached |-> 0, origin |-> "web",
                served |-> TRUE]
    /\ ct_cmds = 0

\* MacroController::new(macros_dir) (lines 64-79) on a directory dir.
CtrlNew(dir) ==
    /\ ~ct_built
    /\ ct_built' = TRUE
    /\ fs_files' = dir.files
    /\ fs_index' = dir.index
    /\ ct_macro_mode' = FALSE
    /\ current_slot' = 0
    /\ cached_slot_count' = get_slot_count(dir.index)
    /\ cached_macro_name' = refresh_cache(dir.index, 0).name
    /\ ct_op' = [cmd |-> "new", arg |-> 0, effect |-> MacroEffectNone,
                 slot |-> 0, count |-> Len(dir.index), cached |-> 0,
                 origin |-> "web", served |-> TRUE]
    /\ ct_cmds' = ct_cmds + 1
    /\ UNCHANGED ctrlRecorder
    /\ UNCHANGED playerVars
    /\ UNCHANGED ctrlOthers

\* Mutant of CtrlStopAndSave: the recorder is stopped and nothing is saved.
CtrlStopOnly(io) ==
    /\ rec_recording' = FALSE
    /\ UNCHANGED <<rec_frames, rec_elapsed, fs_files, fs_index>>

\* recorder.stop() then recorder.save(macros_dir, None) (recorder.rs lines
\* 45-61), as toggle_macro_mode and toggle_recording call them.
CtrlStopAndSave(io) ==
    LET result == save_macro(fs_files, fs_index, rec_frames, <<>>, io)
    IN /\ rec_recording' = FALSE
       /\ rec_frames' = SaveFramesAfter(rec_frames)
       /\ fs_files' = result.files
       /\ fs_index' = result.index
       /\ UNCHANGED rec_elapsed

\* toggle_macro_mode (lines 119-144), which main.rs holds twice: for the
\* combo action (lines 514-531) and for the web command (lines 358-375).
CtrlToggleMacroMode(origin, io) ==
    /\ ct_macro_mode' = ~ct_macro_mode
    /\ UNCHANGED current_slot
    /\ IF ct_macro_mode'
       THEN /\ CtrlStep("ToggleMacroMode", 0,
                        MacroEffect("LED_MACRO_MODE", FALSE), origin, TRUE)
            /\ io = IoServed
            /\ UNCHANGED <<ctrlRecorder, ctrlDir>>
            /\ CtrlRefresh
       ELSE /\ CtrlStep("ToggleMacroMode", 0,
                        MacroEffect("LED_NORMAL", rec_recording), origin,
                        IoClean(io))
            /\ IF rec_recording
               THEN CtrlStopAndSave(io)
               ELSE io = IoServed /\ UNCHANGED <<ctrlRecorder, ctrlDir>>
            /\ UNCHANGED <<cached_slot_count, cached_macro_name>>
    /\ UNCHANGED playerVars

\* toggle_recording (lines 146-162).
CtrlToggleRecording(io) ==
    /\ UNCHANGED <<ct_macro_mode, current_slot>>
    /\ IF rec_recording
       THEN /\ CtrlStep("ToggleRecording", 0,
                        MacroEffect("LED_MACRO_MODE", TRUE), "web", IoClean(io))
            /\ CtrlStopAndSave(io)
            /\ CtrlRefresh
       ELSE /\ CtrlDone("ToggleRecording", 0, MacroEffect("LED_RECORDING", FALSE))
            /\ io = IoServed
            /\ Len(fs_index) < MaxMacros   \* bound of the model
            /\ rec_frames' = <<>>
            /\ rec_elapsed' = <<U64(0)>>
            /\ rec_recording' = TRUE
            /\ UNCHANGED <<ctrlDir, cached_slot_count, cached_macro_name>>
    /\ UNCHANGED playerVars

\* main.rs lines 590-592: a report arrives pause after the last one while the
\* recorder is recording, and recorder.add_frame stores it.
CtrlAddFrame(pause, raw_report) ==
    /\ ct_built
    /\ rec_recording
    /\ ct_cmds < MaxCmds
    /\ ct_cmds' = ct_cmds + 1
    /\ rec_elapsed' = <<AddU64(rec_elapsed[1], pause)>>
    /\ rec_frames' = Append(rec_frames, <<rec_elapsed'[1], raw_report>>)
    /\ ct_op' = [cmd |-> "add_frame", arg |-> 0, effect |-> MacroEffectNone,
                 slot |-> current_slot, count |-> Len(fs_index),
                 cached |-> cached_slot_count, origin |-> "usb",
                 served |-> TRUE]
    /\ UNCHANGED <<ct_built, ct_macro_mode, current_slot, cached_slot_count,
                   cached_macro_name>>
    /\ UNCHANGED <<rec_recording, ctrlDir>>
    /\ UNCHANGED playerVars
    /\ UNCHANGED ctrlOthers

\* prev_slot (lines 164-174), the slot it selects.
prev_slot(slot, slot_count) ==
    IF slot = 0 THEN slot_count - 1 ELSE slot - 1

\* next_slot (lines 176-183), the slot it selects.
next_slot(slot, slot_count) == (slot + 1) % slot_count

\* prev_slot (lines 164-174).
CtrlPrevSlot ==
    /\ CtrlDone("PrevSlot", 0, MacroEffectNone)
    /\ IF cached_slot_count > 0
       THEN /\ current_slot' = prev_slot(current_slot, cached_slot_count)
            /\ UNCHANGED ctrlDir
            /\ CtrlRefresh
       ELSE UNCHANGED <<current_slot, cached_slot_count, cached_macro_name,
                        ctrlDir>>
    /\ UNCHANGED <<ct_macro_mode, ctrlRecorder>>
    /\ UNCHANGED playerVars

\* next_slot (lines 176-183).
CtrlNextSlot ==
    /\ CtrlDone("NextSlot", 0, MacroEffectNone)
    /\ IF cached_slot_count > 0
       THEN /\ current_slot' = next_slot(current_slot, cached_slot_count)
            /\ UNCHANGED ctrlDir
            /\ CtrlRefresh
       ELSE UNCHANGED <<current_slot, cached_slot_count, cached_macro_name,
                        ctrlDir>>
    /\ UNCHANGED <<ct_macro_mode, ctrlRecorder>>
    /\ UNCHANGED playerVars

\* select_slot (lines 185-191).
CtrlSelectSlot(slot) ==
    /\ CtrlDone("SelectSlot", slot, MacroEffectNone)
    /\ IF slot < cached_slot_count
       THEN /\ current_slot' = slot
            /\ UNCHANGED ctrlDir
            /\ CtrlRefresh
       ELSE UNCHANGED <<current_slot, cached_slot_count, cached_macro_name,
                        ctrlDir>>
    /\ UNCHANGED <<ct_macro_mode, ctrlRecorder>>
    /\ UNCHANGED playerVars

\* play_macro (lines 193-209): player.load, then player.start(false) whose
\* result is not looked at. io is the outcome of File::open and Mmap::map.
CtrlPlayMacro(io) ==
    LET macro_id == get_macro_id_by_slot(fs_index, current_slot)
        r == load(PlayerFields, fs_files, fs_index, macro_id[1], io)
        started == r.mmap # <<>> /\ r.frame_count # 0
    IN /\ IF macro_id = <<>>
          THEN /\ io = "ok"
               /\ CtrlDone("PlayMacro", 0, MacroEffectNone)
               /\ UNCHANGED playerVars
          ELSE /\ CtrlDone("PlayMacro", macro_id[1],
                           IF r.ret THEN MacroEffect("LED_PLAYBACK", FALSE)
                           ELSE MacroEffectNone)
               /\ pl_mmap' = r.mmap
               /\ pl_frame_count' = r.frame_count
               /\ pl_frame_index' = r.frame_index
               /\ pl_last_report' = r.last_report
               /\ pl_last_idx' = IF r.ret THEN 0 ELSE pl_last_idx
               /\ pl_playing' = IF r.ret /\ started THEN TRUE ELSE pl_playing
               /\ pl_looping' = IF r.ret /\ started THEN FALSE ELSE pl_looping
               /\ pl_start' = IF r.ret /\ started THEN <<pl_now>> ELSE pl_start
               /\ pl_op' = IF r.ret
                           THEN [op |-> "start", arg |-> 0, ret |-> <<>>,
                                 idx |-> 0, ok |-> started]
                           ELSE [op |-> "load", arg |-> 0, ret |-> <<>>,
                                 idx |-> 0, ok |-> FALSE]
               /\ pl_run' = IF r.ret /\ started
                            THEN [looping |-> FALSE, steady |-> (pl_speed = 1000),
                                  finals |-> 0]
                            ELSE [pl_run EXCEPT !.steady = FALSE]
               /\ UNCHANGED <<pl_speed, pl_now>>
       /\ UNCHANGED <<ct_macro_mode, current_slot, cached_slot_count,
                      cached_macro_name, ctrlRecorder, ctrlDir>>

\* mode_led (lines 103-110).
mode_led(mode) == IF mode THEN "LED_MACRO_MODE" ELSE "LED_NORMAL"

\* stop_playback (lines 211-221).
CtrlStopPlayback ==
    /\ IF pl_playing
       THEN /\ CtrlDone("StopPlayback", 0,
                        MacroEffect(mode_led(ct_macro_mode), FALSE))
            /\ pl_playing' = FALSE
            /\ pl_looping' = FALSE
            /\ pl_op' = [op |-> "stop", arg |-> 0, ret |-> <<>>, idx |-> 0, ok |-> FALSE]
            /\ UNCHANGED <<pl_speed, pl_mmap, pl_frame_count, pl_frame_index,
                           pl_start, pl_last_report, pl_now, pl_last_idx,
                           pl_run>>
       ELSE /\ CtrlDone("StopPlayback", 0, MacroEffectNone)
            /\ UNCHANGED playerVars
    /\ UNCHANGED <<ct_macro_mode, current_slot, cached_slot_count,
                   cached_macro_name, ctrlRecorder, ctrlDir>>

\* cycle_speed (lines 223-226).
CtrlCycleSpeed ==
    /\ CtrlDone("CycleSpeed", 0, MacroEffectNone)
    /\ pl_speed' = cycle_speed(pl_speed)
    /\ pl_op' = [op |-> "cycle_speed", arg |-> 0, ret |-> <<>>, idx |-> 0, ok |-> FALSE]
    /\ pl_run' = [pl_run EXCEPT !.steady = FALSE]
    /\ UNCHANGED <<pl_playing, pl_looping, pl_mmap, pl_frame_count,
                   pl_frame_index, pl_start, pl_last_report, pl_now, pl_last_idx>>
    /\ UNCHANGED <<ct_macro_mode, current_slot, cached_slot_count,
                   cached_macro_name, ctrlRecorder, ctrlDir>>

\* set_playback_speed (lines 228-231).
CtrlSetPlaybackSpeed(speed) ==
    /\ CtrlDone("SetPlaybackSpeed", speed, MacroEffectNone)
    /\ pl_speed' = set_speed(speed)
    /\ pl_op' = [op |-> "set_speed", arg |-> speed, ret |-> <<>>, idx |-> 0, ok |-> FALSE]
    /\ pl_run' = [pl_run EXCEPT !.steady = FALSE]
    /\ UNCHANGED <<pl_playing, pl_looping, pl_mmap, pl_frame_count,
                   pl_frame_index, pl_start, pl_last_report, pl_now, pl_last_idx>>
    /\ UNCHANGED <<ct_macro_mode, current_slot, cached_slot_count,
                   cached_macro_name, ctrlRecorder, ctrlDir>>

\* rename_macro (lines 233-243).
CtrlRenameMacro(id, name, io) ==
    LET r == rename_macro(fs_files, fs_index, id, name, io)
    IN /\ CtrlDone("RenameMacro", id,
                   IF r.ret THEN MacroEffect("", TRUE) ELSE MacroEffectNone)
       /\ fs_files' = r.files
       /\ fs_index' = r.index
       /\ UNCHANGED <<ct_macro_mode, current_slot, ctrlRecorder>>
       /\ IF r.ret THEN CtrlRefresh
          ELSE UNCHANGED <<cached_slot_count, cached_macro_name>>
       /\ UNCHANGED playerVars

\* Mutant of SlotAfterDelete: the cursor goes to the last remaining slot.
SlotAfterDeleteLast(slot, new_count) ==
    IF new_count = 0 THEN 0 ELSE new_count - 1

\* The cursor after a delete that leaves new_count macros (lines 249-254).
SlotAfterDelete(slot, new_count) ==
    IF new_count = 0 THEN 0
    ELSE IF slot >= new_count THEN new_count - 1
    ELSE slot

\* delete_macro (lines 245-262).
CtrlDeleteMacro(id, io) ==
    LET r == delete_macro(fs_files, fs_index, id, io)
    IN /\ CtrlDone("DeleteMacro", id,
                   IF r.ret THEN MacroEffect("", TRUE) ELSE MacroEffectNone)
       /\ fs_files' = r.files
       /\ fs_index' = r.index
       /\ IF r.ret
          THEN /\ current_slot' =
                     SlotAfterDelete(current_slot, get_slot_count(r.index))
               /\ CtrlRefresh
          ELSE UNCHANGED <<current_slot, cached_slot_count, cached_macro_name>>
       /\ UNCHANGED <<ct_macro_mode, ctrlRecorder>>
       /\ UNCHANGED playerVars

\* MacroController::execute (lines 82-96) on each command, the construction
\* of the controller, and the reports recorded in between.
CtrlNext ==
    \/ \E dir \in CtrlDirs : CtrlNew(dir)
    \/ \E origin \in Origins, io \in IoOf({"write", "index"}) :
          CtrlToggleMacroMode(origin, io)
    \/ \E io \in IoOf({"write", "index"}) : CtrlToggleRecording(io)
    \/ CtrlAddFrame(U64(1000), FrameReport)
    \/ CtrlPrevSlot
    \/ CtrlNextSlot
    \/ \E slot \in 0..MaxMacros : CtrlSelectSlot(slot)
    \/ \E io \in IoOutcomes : CtrlPlayMacro(io)
    \/ CtrlStopPlayback
    \/ CtrlCycleSpeed
    \/ CtrlSetPlaybackSpeed(3000)
    \/ \E id \in 1..(MaxMacros + 1) :
          CtrlRenameMacro(id, "run", [rename |-> "ok", index |-> "ok"])
    \/ \E id \in 1..(MaxMacros + 1) :
          CtrlDeleteMacro(id, [remove |-> "ok", index |-> "ok"])

(***************************************************************************)
(* web/state.rs: MitmState called from several threads                     *)
(***************************************************************************)
\* The threads that call update (the USB worker thread of spawn_blocking,
\* main.rs lines 492 and 602, and the supervisor, main.rs lines 136-297),
\* pop_if_changed (the state emitter task, main.rs line 114) and snapshot
\* (the web handlers, web/mod.rs lines 67 and 84).
Updaters == {"worker", "supervisor"}

LockThreads == Updaters \cup {"emitter", "web"}

\* The snapshots the updaters publish.
LockSnapshots ==
    {DefaultSnapshot, [DefaultSnapshot EXCEPT !.usb_connected = TRUE]}

\* What a step of a thread leaves alone besides the parts it names.
lockOthers == <<comboVars, protoVars, pairVars, reportVars, parseVars,
                chanVars, storeVars, playerVars, ctrlVars, supVars,
                sessVars, downVars, hidVars, liveVars,
                workVars, indexVars, setupVars,
                ms_replaced, ms_trace>>

LockInit ==
    /\ lk_inner = ""
    /\ lk_changed = ""
    /\ lk_pc = [t \in LockThreads |-> "idle"]
    /\ lk_arg = [t \in LockThreads |-> DefaultSnapshot]

\* A thread calls update(snapshot), pop_if_changed() or snapshot().
LockCall(t) ==
    /\ lk_pc[t] = "idle"
    /\ \E snapshot \in LockSnapshots :
          /\ lk_arg' = [lk_arg EXCEPT ![t] = IF t \in Updaters THEN snapshot
                                            ELSE DefaultSnapshot]
          /\ t \notin Updaters => snapshot = DefaultSnapshot
    /\ lk_pc' = [lk_pc EXCEPT ![t] = IF t \in Updaters THEN "update"
                                     ELSE IF t = "emitter" THEN "pop"
                                     ELSE "snapshot"]
    /\ UNCHANGED <<lk_inner, lk_changed, ms_inner, ms_changed, ms_pop>>
    /\ UNCHANGED lockOthers

\* update, line 150: self.inner.lock() is granted; line 151 compares, line
\* 152 stores; with nothing to store the guard is dropped and update returns.
UpdateLockInner(t) ==
    /\ lk_pc[t] = "update"
    /\ lk_inner = ""
    /\ IF ms_inner # lk_arg[t]
       THEN /\ ms_inner' = lk_arg[t]
            /\ lk_inner' = t
            /\ lk_pc' = [lk_pc EXCEPT ![t] = "update_changed"]
       ELSE /\ UNCHANGED <<ms_inner, lk_inner>>
            /\ lk_pc' = [lk_pc EXCEPT ![t] = "idle"]
    /\ UNCHANGED <<lk_changed, lk_arg, ms_changed, ms_pop>>
    /\ UNCHANGED lockOthers

\* update, line 153: *self.changed.lock().unwrap() = true, with inner held;
\* then both guards are dropped and update returns.
UpdateLockChanged(t) ==
    /\ lk_pc[t] = "update_changed"
    /\ lk_changed = ""
    /\ ms_changed' = TRUE
    /\ lk_inner' = ""
    /\ lk_pc' = [lk_pc EXCEPT ![t] = "idle"]
    /\ UNCHANGED <<lk_changed, lk_arg, ms_inner, ms_pop>>
    /\ UNCHANGED lockOthers

\* pop_if_changed, line 167: self.changed.lock() is granted; lines 168-169
\* test and clear the flag; with the flag clear the guard is dropped and
\* pop_if_changed returns None.
PopLockChanged(t) ==
    /\ lk_pc[t] = "pop"
    /\ lk_changed = ""
    /\ IF ms_changed
       THEN /\ ms_changed' = FALSE
            /\ lk_changed' = t
            /\ lk_pc' = [lk_pc EXCEPT ![t] = "pop_inner"]
            /\ UNCHANGED ms_pop
       ELSE /\ ms_pop' = <<>>
            /\ lk_pc' = [lk_pc EXCEPT ![t] = "idle"]
            /\ UNCHANGED <<ms_changed, lk_changed>>
    /\ UNCHANGED <<lk_inner, lk_arg, ms_inner>>
    /\ UNCHANGED lockOthers

\* pop_if_changed, line 170: Some(self.inner.lock().unwrap().clone()), with
\* changed held; then both guards are dropped and pop_if_changed returns.
PopLockInner(t) ==
    /\ lk_pc[t] = "pop_inner"
    /\ lk_inner = ""
    /\ ms_pop' = <<ms_inner>>
    /\ lk_changed' = ""
    /\ lk_pc' = [lk_pc EXCEPT ![t] = "idle"]
    /\ UNCHANGED <<lk_inner, lk_arg, ms_inner, ms_changed>>
    /\ UNCHANGED lockOthers

\* snapshot, line 158: self.inner.lock().unwrap().clone().
SnapshotLockInner(t) ==
    /\ lk_pc[t] = "snapshot"
    /\ lk_inner = ""
    /\ lk_pc' = [lk_pc EXCEPT ![t] = "idle"]
    /\ UNCHANGED <<lk_inner, lk_changed, lk_arg, ms_inner, ms_changed, ms_pop>>
    /\ UNCHANGED lockOthers

\* The steps of a call that has begun.
LockProceed(t) ==
    \/ UpdateLockInner(t)
    \/ UpdateLockChanged(t)
    \/ PopLockChanged(t)
    \/ PopLockInner(t)
    \/ SnapshotLockInner(t)

LockNext ==
    \E t \in LockThreads : LockCall(t) \/ LockProceed(t)

\* Every thread runs, and a mutex that keeps becoming free is granted to
\* each thread that waits for it.
LockFairness == \A t \in LockThreads : SF_vars(LockProceed(t))

(***************************************************************************)
(* main.rs: the hardware lifecycle loop; bt/emulator.rs: accept_connection *)
(***************************************************************************)
PSM_CONTROL == 17

PSM_INTERRUPT == 19

\* The two L2CAP channels of a session.
Channels == {"ctrl", "itr"}

\* let ctrl_listener, let itr_listener (lines 219-220).
ListenerOf(c) == IF c = "ctrl" THEN "ctrl_listener" ELSE "itr_listener"

\* let ctrl_fd, let itr_fd (lines 235-237).
AcceptedOf(c) == IF c = "ctrl" THEN "ctrl_fd" ELSE "itr_fd"

PsmOf(c) == IF c = "ctrl" THEN PSM_CONTROL ELSE PSM_INTERRUPT

Sockets == {"ctrl_listener", "itr_listener", "ctrl_fd", "itr_fd"}

\* The ways async_accept returns: the accepted descriptor; the error of
\* accept; the error of fcntl(F_GETFL); the error of AsyncFd::with_interest
\* or of readable().
AcceptOutcomes == {"Ok", "AcceptErr", "FcntlErr", "RegisterErr"}

\* The ways the two L2capSocket::from_raw_fd calls end: both Ok, or the
\* fcntl or the AsyncFd::new of one of them fails.
WrapOutcomes == {"ok", "ctrl_fcntl", "ctrl_register", "itr_fcntl",
                 "itr_register"}

NoCloses == [s \in Sockets |-> 0]

\* libc::close on each socket of the set.
CloseAll(closes, set) ==
    [s \in Sockets |-> IF s \in set THEN closes[s] + 1 ELSE closes[s]]

\* The PSMs whose listener the current future opened and nothing closed.
OpenListenerPsms ==
    {PsmOf(c) : c \in {d \in Channels : /\ ListenerOf(d) \in sk_opened
                                        /\ sk_closes[ListenerOf(d)] = 0}}

SupInit ==
    /\ su_pc = "usb_init"
    /\ usb_running = FALSE
    /\ su_queue = 0
    /\ su_timer = 0
    /\ accept_fut = "none"
    /\ accept_ch = [c \in Channels |-> "idle"]
    /\ sk_opened = {}
    /\ sk_closes = NoCloses
    /\ sk_session = {}
    /\ psm_held = {}
    /\ su_op = [op |-> "none", arg |-> ""]

\* Lines 219-220 of main.rs and 240 ("accept_fut.set"): the value that was
\* in the pinned slot is dropped and accept_connection() builds a future;
\* nothing of it runs before the first poll. A listener the old future left
\* open keeps its PSM.
NewAcceptFuture ==
    /\ accept_fut' = "new"
    /\ accept_ch' = [c \in Channels |-> "idle"]
    /\ psm_held' = psm_held \cup OpenListenerPsms
    /\ sk_opened' = {}
    /\ sk_closes' = NoCloses
    /\ sk_session' = {}

\* Mutant of UsbProbe: the timer branch rebuilds the accept future.
UsbProbeRecreates ==
    /\ su_pc = "accept"
    /\ accept_fut = "listening"
    /\ su_op' = [op |-> "probe", arg |-> IF usb_running THEN "running"
                                       ELSE "finished"]
    /\ IF usb_running
       THEN /\ NewAcceptFuture
            /\ UNCHANGED <<su_pc, usb_running, su_queue, su_timer>>
       ELSE /\ su_pc' = "usb_await"
            /\ accept_fut' = "dropped"
            /\ sk_closes' = CloseAll(sk_closes,
                  {ListenerOf(c) : c \in {d \in Channels :
                                             accept_ch[d] = "pending"}})
            /\ UNCHANGED <<usb_running, su_queue, su_timer, accept_ch,
                           sk_opened, sk_session, psm_held>>
    /\ UNCHANGED notSup

\* Lines 125-219: USB initialisation succeeded, the report channel is made,
\* usb_processing_loop is spawned and 'bt_loop is entered.
SupUsbInit ==
    /\ su_pc = "usb_init"
    /\ usb_running' = TRUE
    /\ su_queue' = 0
    /\ NewAcceptFuture
    /\ su_pc' = "accept"
    /\ su_op' = [op |-> "usb_init", arg |-> ""]
    /\ UNCHANGED su_timer
    /\ UNCHANGED notSup

\* usb_processing_loop hands a report to the channel (lines 481-482,
\* 598-599); a full channel refuses it.
SupWorkerSend ==
    /\ usb_running
    /\ su_queue' = IF su_queue < ReportChannelCapacity THEN su_queue + 1
                   ELSE su_queue
    /\ su_op' = [op |-> "try_send", arg |-> ""]
    /\ UNCHANGED <<su_pc, usb_running, su_timer, accept_fut, accept_ch,
                   sk_opened, sk_closes, sk_session, psm_held>>
    /\ UNCHANGED notSup

\* usb_processing_loop returns (lines 455-471): the HID reader ended or the
\* presence probe found the device gone.
SupWorkerExit ==
    /\ usb_running
    /\ usb_running' = FALSE
    /\ su_op' = [op |-> "worker_exit", arg |-> ""]
    /\ UNCHANGED <<su_pc, su_queue, su_timer, accept_fut, accept_ch,
                   sk_opened, sk_closes, sk_session, psm_held>>
    /\ UNCHANGED notSup

\* The Err arm of the select (lines 226-231): the error is logged and the
\* supervisor sleeps 2 s.
AcceptReturnsErr ==
    /\ accept_fut' = "err"
    /\ su_pc' = "accept_sleep"

\* The first poll of the accept future (emulator.rs lines 219-220, 119-166):
\* the two bind_l2cap calls. bind_l2cap closes its own socket when bind or
\* listen fails; a PSM that an open listener holds cannot be bound.
AcceptFirstPoll(ctrl_bind, itr_bind) ==
    /\ su_pc = "accept"
    /\ accept_fut = "new"
    /\ LET ctrl_ok == ctrl_bind /\ PSM_CONTROL \notin psm_held
           itr_ok == itr_bind /\ PSM_INTERRUPT \notin psm_held
       IN IF ~ctrl_ok
          THEN /\ sk_opened' = {"ctrl_listener"}
               /\ sk_closes' = CloseAll(sk_closes, {"ctrl_listener"})
               /\ AcceptReturnsErr
               /\ su_op' = [op |-> "accept_poll", arg |-> "ctrl_bind_err"]
               /\ UNCHANGED accept_ch
          ELSE IF ~itr_ok
          THEN /\ sk_opened' = {"ctrl_listener", "itr_listener"}
               /\ sk_closes' = CloseAll(sk_closes, {"itr_listener"})
               /\ AcceptReturnsErr
               /\ su_op' = [op |-> "accept_poll", arg |-> "itr_bind_err"]
               /\ UNCHANGED accept_ch
          ELSE /\ sk_opened' = {"ctrl_listener", "itr_listener"}
               /\ accept_fut' = "listening"
               /\ accept_ch' = [c \in Channels |-> "pending"]
               /\ su_op' = [op |-> "accept_poll", arg |-> "listening"]
               /\ UNCHANGED <<su_pc, sk_closes>>
    /\ UNCHANGED <<usb_running, su_queue, su_timer, sk_session, psm_held>>
    /\ UNCHANGED notSup

\* One async_accept of the join returns (emulator.rs lines 169-208), and,
\* when the other one has returned too, the rest of accept_connection runs
\* (lines 231-243) and the select arm takes its result (main.rs 222-232).
\* An AsyncFd that registered the listener closes it when dropped on an
\* error; after try_io it is leaked unclosed. from_raw_fd closes the
\* descriptor only when AsyncFd::new fails; a wrapped control socket is
\* closed when it is dropped.
AcceptChannel(c, outcome, wrap) ==
    /\ su_pc = "accept"
    /\ accept_fut = "listening"
    /\ accept_ch[c] = "pending"
    /\ LET ch == [accept_ch EXCEPT ![c] = outcome]
           opened == IF outcome = "Ok" THEN sk_opened \cup {AcceptedOf(c)}
                     ELSE sk_opened
           closes == IF outcome = "RegisterErr"
                     THEN CloseAll(sk_closes, {ListenerOf(c)})
                     ELSE sk_closes
           joined == CloseAll(closes, {"ctrl_listener", "itr_listener"})
       IN /\ accept_ch' = ch
          /\ sk_opened' = opened
          /\ IF \E d \in Channels : ch[d] = "pending"
             THEN /\ sk_closes' = closes
                  /\ su_op' = [op |-> "accept_channel", arg |-> outcome]
                  /\ UNCHANGED <<su_pc, accept_fut, sk_session, su_timer>>
             ELSE IF \E d \in Channels : ch[d] # "Ok"
             THEN /\ sk_closes' = joined
                  /\ AcceptReturnsErr
                  /\ su_op' = [op |-> "accept_done", arg |-> "accept_err"]
                  /\ UNCHANGED <<sk_session, su_timer>>
             ELSE IF wrap = "ok"
             THEN /\ sk_closes' = joined
                  /\ sk_session' = {"ctrl_fd", "itr_fd"}
                  /\ accept_fut' = "ok"
                  /\ su_pc' = "pairing"
                  /\ su_timer' = 0
                  /\ su_op' = [op |-> "accept_done", arg |-> "ok"]
             ELSE /\ sk_closes' = CloseAll(joined,
                        CASE wrap = "ctrl_fcntl" -> {}
                          [] wrap = "ctrl_register" -> {"ctrl_fd"}
                          [] wrap = "itr_fcntl" -> {"ctrl_fd"}
                          [] OTHER -> {"ctrl_fd", "itr_fd"})
                  /\ AcceptReturnsErr
                  /\ su_op' = [op |-> "accept_done", arg |-> wrap]
                  /\ UNCHANGED <<sk_session, su_timer>>
    /\ UNCHANGED <<usb_running, su_queue, psm_held>>
    /\ UNCHANGED notSup

\* Lines 229-231: the 2 s sleep after an accept error is over and
\* accept_fut.set(accept_connection()) replaces the future.
AcceptRetry ==
    /\ su_pc = "accept_sleep"
    /\ NewAcceptFuture
    /\ su_pc' = "accept"
    /\ su_op' = [op |-> "accept_retry", arg |-> ""]
    /\ UNCHANGED <<usb_running, su_queue, su_timer>>
    /\ UNCHANGED notSup

\* Lines 233-244: the 2 s timer of the select fires while the accept future
\* is pending. With the worker finished, break 'bt_loop drops the future:
\* an async_accept that is still waiting drops its AsyncFd, which closes
\* the listener.
UsbProbe ==
    /\ su_pc = "accept"
    /\ accept_fut = "listening"
    /\ su_op' = [op |-> "probe", arg |-> IF usb_running THEN "running"
                                       ELSE "finished"]
    /\ IF usb_running
       THEN UNCHANGED <<su_pc, usb_running, su_queue, su_timer, accept_fut,
                        accept_ch, sk_opened, sk_closes, sk_session,
                        psm_held>>
       ELSE /\ su_pc' = "usb_await"
            /\ accept_fut' = "dropped"
            /\ sk_closes' = CloseAll(sk_closes,
                  {ListenerOf(c) : c \in {d \in Channels :
                                             accept_ch[d] = "pending"}})
            /\ UNCHANGED <<usb_running, su_queue, su_timer, accept_ch,
                           sk_opened, sk_session, psm_held>>
    /\ UNCHANGED notSup

\* One cycle of run_pairing (emulator.rs lines 253-353) and lines 247-251 of
\* main.rs. "again": a reply or a neutral report was written and the loop
\* goes on; "ok": the reply that completes the pairing was written; "err":
\* a read or a reply write failed, and the supervisor continues 'bt_loop.
SupPairing(outcome) ==
    /\ su_pc = "pairing"
    /\ su_op' = [op |-> "pairing", arg |-> outcome]
    /\ CASE outcome = "again" ->
              /\ su_timer' = WrappingInc(su_timer)
              /\ UNCHANGED <<su_pc, accept_fut, accept_ch, sk_opened,
                             sk_closes, sk_session, psm_held>>
         [] outcome = "ok" ->
              /\ su_timer' = 0
              /\ su_pc' = "forwarding"
              /\ UNCHANGED <<accept_fut, accept_ch, sk_opened, sk_closes,
                             sk_session, psm_held>>
         [] OTHER ->
              /\ NewAcceptFuture
              /\ su_pc' = "accept"
              /\ su_timer' = 0
    /\ UNCHANGED <<usb_running, su_queue>>
    /\ UNCHANGED notSup

\* One round of the forwarding loop with a report (main.rs lines 263-280):
\* "continue", or "break" on a failed send or a disconnect seen by the
\* poll, after which 'bt_loop starts over (lines 288-291, 207-219).
SupForward(outcome) ==
    /\ su_pc = "forwarding"
    /\ su_queue > 0
    /\ su_queue' = su_queue - 1
    /\ su_op' = [op |-> "forward", arg |-> outcome]
    /\ IF outcome = "break"
       THEN /\ NewAcceptFuture
            /\ su_pc' = "accept"
       ELSE UNCHANGED <<su_pc, accept_fut, accept_ch, sk_opened, sk_closes,
                        sk_session, psm_held>>
    /\ UNCHANGED <<usb_running, su_timer>>
    /\ UNCHANGED notSup

\* recv returns None (lines 282-285): the channel is empty and the worker
\* has dropped the sender; break 'bt_loop.
SupForwardNone ==
    /\ su_pc = "forwarding"
    /\ su_queue = 0
    /\ ~usb_running
    /\ su_pc' = "usb_await"
    /\ su_op' = [op |-> "forward", arg |-> "none"]
    /\ UNCHANGED <<usb_running, su_queue, su_timer, accept_fut, accept_ch,
                   sk_opened, sk_closes, sk_session, psm_held>>
    /\ UNCHANGED notSup

\* Lines 295-302: after 'bt_loop the supervisor awaits the worker's handle
\* and goes back to the top of the lifecycle loop.
SupUsbAwait ==
    /\ su_pc = "usb_await"
    /\ ~usb_running
    /\ su_pc' = "usb_init"
    /\ su_op' = [op |-> "usb_await", arg |-> ""]
    /\ UNCHANGED <<usb_running, su_queue, su_timer, accept_fut, accept_ch,
                   sk_opened, sk_closes, sk_session, psm_held>>
    /\ UNCHANGED notSup

SupNext ==
    \/ SupUsbInit
    \/ SupWorkerSend
    \/ SupWorkerExit
    \/ \E ctrl_bind \in BOOLEAN, itr_bind \in BOOLEAN :
          AcceptFirstPoll(ctrl_bind, itr_bind)
    \/ \E c \in Channels, outcome \in AcceptOutcomes, wrap \in WrapOutcomes :
          AcceptChannel(c, outcome, wrap)
    \/ AcceptRetry
    \/ UsbProbe
    \/ \E outcome \in {"again", "ok", "err"} : SupPairing(outcome)
    \/ \E outcome \in {"continue", "break"} : SupForward(outcome)
    \/ SupForwardNone
    \/ SupUsbAwait

\* The supervisor task is scheduled: a poll that is ready, a timer that
\* has expired and a step that follows the last one without waiting for
\* the console are eventually taken. What the console and the USB side do
\* is not constrained.
SupFairness ==
    /\ WF_vars(\E ctrl_bind \in BOOLEAN, itr_bind \in BOOLEAN :
                  AcceptFirstPoll(ctrl_bind, itr_bind))
    /\ WF_vars(AcceptRetry)
    /\ WF_vars(UsbProbe)
    /\ WF_vars(\E outcome \in {"again", "ok", "err"} : SupPairing(outcome))
    /\ WF_vars(\E outcome \in {"continue", "break"} : SupForward(outcome))
    /\ WF_vars(SupForwardNone)
    /\ WF_vars(SupUsbAwait)

(***************************************************************************)
(* bt/emulator.rs: run_pairing, poll_control; main.rs: the forwarding loop *)
(***************************************************************************)
\* A report written on the interrupt channel: which builder made it and the
\* timer value it carries.
OutReport(kind, t) == [kind |-> kind, timer |-> t]

\* build_bt_report(&parsed, left_cal, right_cal, 0): the worker's report as
\* it is queued, with the placeholder timer.
QueuedReport == OutReport("input", 0)

\* Mutant of StampTimer: the report is sent as the worker built it.
KeepTimer(report, t) == report

\* report[2] = bt_timer (main.rs line 268).
StampTimer(report, t) == [report EXCEPT !.timer = t]

\* The last of the reports written in a step, as the history entry.
LastOut(phase, out) == [phase |-> phase, timer |-> out[Len(out)].timer]

NoLast == [phase |-> "none", timer |-> 0]

SessInit ==
    /\ se_pc = "waiting"
    /\ se_bt_connected = FALSE
    /\ se_timer = 0
    /\ se_bt_timer = 0
    /\ se_vibration = FALSE
    /\ se_player_set = FALSE
    /\ se_last = NoLast
    /\ se_op = [op |-> "none", outcome |-> "", out |-> <<>>]

\* Lines 207-209 and 288-291 of main.rs: the session is over and 'bt_loop
\* starts again.
SessBackToWaiting ==
    /\ se_pc' = "waiting"
    /\ se_bt_connected' = FALSE
    /\ se_timer' = 0
    /\ se_bt_timer' = 0
    /\ se_vibration' = FALSE
    /\ se_player_set' = FALSE

\* accept_connection returned a session and run_pairing starts
\* (emulator.rs lines 256-266): the locals and the initial empty report; a
\* failed write returns the error and main.rs line 253 continues 'bt_loop.
SessPairingStart(write_ok) ==
    /\ se_pc = "waiting"
    /\ LET out == <<OutReport("initial", 0)>>
       IN /\ se_op' = [op |-> "pairing_start",
                       outcome |-> IF write_ok THEN "ok" ELSE "write_err",
                       out |-> out]
          /\ se_last' = LastOut("pairing", out)
    /\ IF write_ok
       THEN /\ se_pc' = "pairing"
            /\ se_timer' = WrappingInc(0)
            /\ se_vibration' = FALSE
            /\ se_player_set' = FALSE
            /\ UNCHANGED <<se_bt_connected, se_bt_timer>>
       ELSE SessBackToWaiting
    /\ UNCHANGED notSess

\* One cycle of the pairing loop (emulator.rs lines 268-352). event is what
\* the read gave: "read_err" (Ok(0) or Err), "skip" (a buffer the loop
\* ignores), "timeout" or "other" (no subcommand: the neutral report), or
\* the subcommand answered: "vibration" (0x48), "player" (0x30), "subcmd"
\* (any other id). A failed reply write returns the error, a failed neutral
\* write is only logged. Pairing completes with vibration enabled and the
\* player lights set; main.rs lines 256-261 then start the forwarding loop.
SessPairingCycle(event, write_ok) ==
    /\ se_pc = "pairing"
    /\ CASE event = "read_err" ->
              /\ se_op' = [op |-> "pairing", outcome |-> "read_err",
                           out |-> <<>>]
              /\ SessBackToWaiting
              /\ UNCHANGED se_last
         [] event = "skip" ->
              /\ se_op' = [op |-> "pairing", outcome |-> "skip", out |-> <<>>]
              /\ UNCHANGED <<se_pc, se_bt_connected, se_timer, se_bt_timer,
                             se_vibration, se_player_set, se_last>>
         [] event \in {"timeout", "other"} ->
              LET out == <<OutReport("neutral", se_timer)>>
              IN /\ se_op' = [op |-> "pairing", outcome |-> "neutral",
                              out |-> out]
                 /\ se_last' = LastOut("pairing", out)
                 /\ se_timer' = WrappingInc(se_timer)
                 /\ UNCHANGED <<se_pc, se_bt_connected, se_bt_timer,
                                se_vibration, se_player_set>>
         [] OTHER ->
              LET out == <<OutReport("reply", se_timer)>>
                  vib == se_vibration \/ event = "vibration"
                  player == se_player_set \/ event = "player"
              IN /\ se_last' = LastOut("pairing", out)
                 /\ IF ~write_ok
                    THEN /\ se_op' = [op |-> "pairing",
                                      outcome |-> "write_err", out |-> out]
                         /\ SessBackToWaiting
                    ELSE IF vib /\ player
                    THEN /\ se_op' = [op |-> "pairing", outcome |-> "complete",
                                      out |-> out]
                         /\ se_pc' = "forwarding"
                         /\ se_bt_connected' = TRUE
                         /\ se_bt_timer' = 0
                         /\ se_timer' = 0
                         /\ se_vibration' = FALSE
                         /\ se_player_set' = FALSE
                    ELSE /\ se_op' = [op |-> "pairing", outcome |-> "reply",
                                      out |-> out]
                         /\ se_timer' = WrappingInc(se_timer)
                         /\ se_vibration' = vib
                         /\ se_player_set' = player
                         /\ UNCHANGED <<se_pc, se_bt_connected, se_bt_timer>>
    /\ UNCHANGED notSess

\* The outcomes of a round of the forwarding loop: "send_err" (the write of
\* the forwarded report failed); then what poll_control met: "timeout",
\* "closed" (read gave Ok(0)), "reset" (ConnectionReset), "read_err" (any
\* other read error), "data" (a buffer that carries no subcommand), "reply"
\* (a subcommand, reply written), "reply_err" (a subcommand, the write of
\* the reply failed).
ForwardOutcomes ==
    {"send_err", "timeout", "closed", "reset", "read_err", "data", "reply",
     "reply_err"}

\* One round of the forwarding loop with a report from the channel
\* (main.rs lines 263-281; emulator.rs lines 383-447). poll_control returns
\* Ok(true) on "closed" and "reset" and Ok(false) otherwise;
\* handle_incoming_subcommand drops the result of its write_all. After the
\* loop lines 288-291 clear bt_connected and 'bt_loop starts again.
ForwardRound(outcome) ==
    /\ se_pc = "forwarding"
    /\ LET report == StampTimer(QueuedReport, se_bt_timer)
           t1 == WrappingInc(se_bt_timer)
           replied == outcome \in {"reply", "reply_err"}
           out == IF replied THEN <<report, OutReport("reply", t1)>>
                  ELSE <<report>>
       IN /\ se_op' = [op |-> "forward", outcome |-> outcome, out |-> out]
          /\ se_last' = LastOut("forwarding", out)
          /\ IF outcome \in {"send_err", "closed", "reset"}
             THEN SessBackToWaiting
             ELSE /\ se_bt_timer' = IF replied THEN WrappingInc(t1) ELSE t1
                  /\ UNCHANGED <<se_pc, se_bt_connected, se_timer,
                                 se_vibration, se_player_set>>
    /\ UNCHANGED notSess

\* recv returned None (main.rs lines 282-285): break 'bt_loop; the
\* lifecycle loop comes back to 'bt_loop with a new worker (lines 295-302,
\* 125-209).
SessRecvNone ==
    /\ se_pc = "forwarding"
    /\ se_op' = [op |-> "forward", outcome |-> "none", out |-> <<>>]
    /\ SessBackToWaiting
    /\ UNCHANGED se_last
    /\ UNCHANGED notSess

SessNext ==
    \/ \E write_ok \in BOOLEAN : SessPairingStart(write_ok)
    \/ \E event \in {"read_err", "skip", "timeout", "other", "vibration",
                     "player", "subcmd"}, write_ok \in BOOLEAN :
          SessPairingCycle(event, write_ok)
    \/ \E outcome \in ForwardOutcomes : ForwardRound(outcome)
    \/ SessRecvNone

(***************************************************************************)
(* main.rs: what the lifecycle loop and the worker keep across sessions    *)
(***************************************************************************)
\* Rounds of the forwarding loop in one session of the model.
MaxForwarded == 3

\* ComboDetector::new(), MacroRecorder::new(), MacroPlayer::new()
\* (main.rs lines 325-327).
NewWorker == [macro_mode |-> FALSE, recording |-> FALSE, playing |-> FALSE]

\* The snapshots the supervisor publishes (main.rs lines 136, 151, 210, 239,
\* 297): every macro field false.
ResetSnapshot(usb_connected) ==
    [macro_mode |-> FALSE, recording |-> FALSE, playing |-> FALSE,
     usb_connected |-> usb_connected, bt_connected |-> FALSE]

\* update_state (main.rs lines 626-646).
update_state(worker, bt) ==
    [macro_mode |-> worker.macro_mode, recording |-> worker.recording,
     playing |-> worker.playing, usb_connected |-> TRUE, bt_connected |-> bt]

\* The commands that change the worker's flags, from a combo or from the
\* web (main.rs lines 356-452, 500-579).
DownCommands ==
    {"ToggleMacroMode", "ToggleRecording", "PlayMacro", "StopPlayback"}

\* The flags after a command that took effect: a macro was there to play,
\* the recorder had room to start.
WorkerAfter(worker, cmd) ==
    CASE cmd = "ToggleMacroMode" ->
           IF worker.macro_mode
           THEN [worker EXCEPT !.macro_mode = FALSE, !.recording = FALSE]
           ELSE [worker EXCEPT !.macro_mode = TRUE]
      [] cmd = "ToggleRecording" ->
           [worker EXCEPT !.recording = ~worker.recording]
      [] cmd = "PlayMacro" -> [worker EXCEPT !.playing = TRUE]
      [] OTHER -> [worker EXCEPT !.playing = FALSE]

\* The top of 'bt_loop (main.rs lines 207-214, and 288-291 before it when
\* a session ended): bt_connected is cleared and a snapshot with the macro
\* fields false is published. The worker is not touched.
BtLoopTop ==
    /\ dn_pc' = "waiting"
    /\ dn_bt_connected' = FALSE
    /\ dn_bt_timer' = 0
    /\ dn_snapshot' = ResetSnapshot(TRUE)
    /\ UNCHANGED dn_worker

\* After 'bt_loop (main.rs lines 295-302): bt_connected is cleared, the
\* snapshot says USB is gone, and the worker's handle is awaited.
AfterBtLoop ==
    /\ dn_pc' = "usb_init"
    /\ dn_bt_connected' = FALSE
    /\ dn_bt_timer' = 0
    /\ dn_snapshot' = ResetSnapshot(FALSE)
    /\ dn_since' = "usb"

DownInit ==
    /\ dn_pc = "usb_init"
    /\ dn_usb_running = FALSE
    /\ dn_worker = NewWorker
    /\ dn_queue = 0
    /\ dn_bt_connected = FALSE
    /\ dn_bt_timer = 0
    /\ dn_snapshot = ResetSnapshot(FALSE)
    /\ dn_since = "none"
    /\ dn_op = [op |-> "none", timer |-> 0]

\* Lines 125-214: USB initialisation succeeded; a new channel and a new
\* worker, whose state starts from new() (lines 325-327); 'bt_loop begins.
DownUsbInit ==
    /\ dn_pc = "usb_init"
    /\ dn_usb_running' = TRUE
    /\ dn_queue' = 0
    /\ dn_pc' = "waiting"
    /\ dn_bt_connected' = FALSE
    /\ dn_bt_timer' = 0
    /\ dn_snapshot' = ResetSnapshot(TRUE)
    /\ dn_worker' = NewWorker
    /\ dn_op' = [op |-> "usb_init", timer |-> 0]
    /\ UNCHANGED dn_since
    /\ UNCHANGED notDown

\* One turn of usb_processing_loop with a HID report (lines 352-609): a
\* command, if any, changes the flags; the report built is handed to the
\* channel; update_state publishes the worker's flags.
DownWorkerReport(cmd) ==
    /\ dn_usb_running
    /\ LET worker == IF cmd = "none" THEN dn_worker
                     ELSE WorkerAfter(dn_worker, cmd)
           sets == \/ worker.macro_mode /\ ~dn_worker.macro_mode
                   \/ worker.recording /\ ~dn_worker.recording
                   \/ worker.playing /\ ~dn_worker.playing
       IN /\ dn_worker' = worker
          /\ dn_snapshot' = update_state(worker, dn_bt_connected)
          /\ dn_since' = IF sets /\ dn_since \in {"bt", "usb"} THEN "changed"
                         ELSE dn_since
    /\ dn_queue' = IF dn_queue < ReportChannelCapacity THEN dn_queue + 1
                   ELSE dn_queue
    /\ dn_op' = [op |-> "worker", timer |-> 0]
    /\ UNCHANGED <<dn_pc, dn_usb_running, dn_bt_connected, dn_bt_timer>>
    /\ UNCHANGED notDown

\* usb_processing_loop returns (lines 455-471).
DownWorkerExit ==
    /\ dn_usb_running
    /\ dn_usb_running' = FALSE
    /\ dn_op' = [op |-> "worker_exit", timer |-> 0]
    /\ UNCHANGED <<dn_pc, dn_worker, dn_queue, dn_bt_connected, dn_bt_timer,
                   dn_snapshot, dn_since>>
    /\ UNCHANGED notDown

\* accept_connection and run_pairing returned Ok (lines 222-262): the flag
\* is set and the forwarding loop starts with its timer at 0.
DownConnected ==
    /\ dn_pc = "waiting"
    /\ dn_pc' = "forwarding"
    /\ dn_bt_connected' = TRUE
    /\ dn_bt_timer' = 0
    /\ dn_op' = [op |-> "connected", timer |-> 0]
    /\ UNCHANGED <<dn_usb_running, dn_worker, dn_queue, dn_snapshot,
                   dn_since>>
    /\ UNCHANGED notDown

\* run_pairing returned Err (lines 250-254): continue 'bt_loop.
DownPairingFailed ==
    /\ dn_pc = "waiting"
    /\ BtLoopTop
    /\ dn_op' = [op |-> "pairing_err", timer |-> 0]
    /\ UNCHANGED <<dn_usb_running, dn_queue, dn_since>>
    /\ UNCHANGED notDown

\* The 2 s probe of the accept wait finds the worker finished (lines
\* 233-244, 295-302).
DownWaitUsbGone ==
    /\ dn_pc = "waiting"
    /\ ~dn_usb_running
    /\ AfterBtLoop
    /\ dn_op' = [op |-> "usb_gone", timer |-> 0]
    /\ UNCHANGED <<dn_usb_running, dn_worker, dn_queue>>
    /\ UNCHANGED notDown

\* One round of the forwarding loop with a report (lines 263-281, 288-291):
\* "continue", "reply" (the poll answered a subcommand) or "break" (a failed
\* send or a disconnect seen by the poll).
DownForward(outcome) ==
    /\ dn_pc = "forwarding"
    /\ dn_queue > 0
    /\ outcome = "break" \/ dn_bt_timer < MaxForwarded
    /\ dn_queue' = dn_queue - 1
    /\ dn_op' = [op |-> "forward", timer |-> dn_bt_timer]
    /\ IF outcome = "break"
       THEN /\ BtLoopTop
            /\ dn_since' = "bt"
       ELSE /\ dn_bt_timer' = IF outcome = "reply"
                              THEN WrappingInc(WrappingInc(dn_bt_timer))
                              ELSE WrappingInc(dn_bt_timer)
            /\ dn_since' = "none"
            /\ UNCHANGED <<dn_pc, dn_bt_connected, dn_snapshot, dn_worker>>
    /\ UNCHANGED dn_usb_running
    /\ UNCHANGED notDown

\* recv returned None (lines 282-285, 295-302).
DownForwardNone ==
    /\ dn_pc = "forwarding"
    /\ dn_queue = 0
    /\ ~dn_usb_running
    /\ AfterBtLoop
    /\ dn_op' = [op |-> "forward_none", timer |-> 0]
    /\ UNCHANGED <<dn_usb_running, dn_worker, dn_queue>>
    /\ UNCHANGED notDown

DownNext ==
    \/ DownUsbInit
    \/ \E cmd \in DownCommands \cup {"none"} : DownWorkerReport(cmd)
    \/ DownWorkerExit
    \/ DownConnected
    \/ DownPairingFailed
    \/ DownWaitUsbGone
    \/ \E outcome \in {"continue", "reply", "break"} : DownForward(outcome)
    \/ DownForwardNone

(***************************************************************************)
(* usb/hid.rs: spawn_reader, reader_loop                                   *)
(***************************************************************************)
\* USB cycles (spawn_reader calls) in a run of the model.
MaxCycles == 2

Readers == 1..MaxCycles

\* usb::hid::spawn_reader(2) (main.rs line 162).
HidChannelCapacity == 2

ReaderRunning(r) == hid_pc[r] \in {"reading", "got", "sending"}

ReaderExited(r) == hid_pc[r] \in {"exited_ok", "exited_err"}

\* device.read_timeout(&mut buf, 100): Ok(0), Ok(n) with n < 64, Ok(64), Err.
ReadOutcomes == {"timeout", "short", "full", "err"}

HidInit ==
    /\ hid_pc = [r \in Readers |-> "unborn"]
    /\ hid_read = [r \in Readers |-> "none"]
    /\ hid_queue = [r \in Readers |-> 0]
    /\ hid_rx = [r \in Readers |-> "none"]

\* spawn_reader (hid.rs lines 19-32, main.rs line 162) in a USB cycle: the
\* cycle before it ended with its receiver dropped. The thread opens the
\* device (lines 40-68) and enters the read loop.
HidSpawn(r) ==
    /\ hid_pc[r] = "unborn"
    /\ r > 1 => hid_rx[r - 1] = "dropped"
    /\ hid_pc' = [hid_pc EXCEPT ![r] = "reading"]
    /\ hid_rx' = [hid_rx EXCEPT ![r] = "alive"]
    /\ UNCHANGED <<hid_read, hid_queue>>
    /\ UNCHANGED notHid

\* device.read_timeout returns (line 72).
HidRead(r, outcome) ==
    /\ hid_pc[r] = "reading"
    /\ hid_pc' = [hid_pc EXCEPT ![r] = "got"]
    /\ hid_read' = [hid_read EXCEPT ![r] = outcome]
    /\ UNCHANGED <<hid_queue, hid_rx>>
    /\ UNCHANGED notHid

\* tx.send(report) (lines 84-87): Err when the receiver is dropped, and the
\* loop returns Ok(()); it blocks while the channel is full.
SendReport(r) ==
    IF hid_rx[r] = "dropped"
    THEN /\ hid_pc' = [hid_pc EXCEPT ![r] = "exited_ok"]
         /\ UNCHANGED hid_queue
    ELSE IF hid_queue[r] < HidChannelCapacity
    THEN /\ hid_pc' = [hid_pc EXCEPT ![r] = "reading"]
         /\ hid_queue' = [hid_queue EXCEPT ![r] = @ + 1]
    ELSE /\ hid_pc' = [hid_pc EXCEPT ![r] = "sending"]
         /\ UNCHANGED hid_queue

\* The match on the read's result (lines 72-93).
HidHandle(r) ==
    /\ hid_pc[r] = "got"
    /\ CASE hid_read[r] \in {"timeout", "short"} ->
              /\ hid_pc' = [hid_pc EXCEPT ![r] = "reading"]
              /\ UNCHANGED hid_queue
         [] hid_read[r] = "err" ->
              /\ hid_pc' = [hid_pc EXCEPT ![r] = "exited_err"]
              /\ UNCHANGED hid_queue
         [] OTHER -> SendReport(r)
    /\ UNCHANGED <<hid_read, hid_rx>>
    /\ UNCHANGED notHid

\* A send that was blocked on a full channel goes on (line 84).
HidSendResumes(r) ==
    /\ hid_pc[r] = "sending"
    /\ hid_rx[r] = "dropped" \/ hid_queue[r] < HidChannelCapacity
    /\ SendReport(r)
    /\ UNCHANGED <<hid_read, hid_rx>>
    /\ UNCHANGED notHid

\* hid_rx.recv_timeout returns a report (main.rs lines 168, 455).
HidRecv(r) ==
    /\ hid_rx[r] = "alive"
    /\ hid_queue[r] > 0
    /\ hid_queue' = [hid_queue EXCEPT ![r] = @ - 1]
    /\ UNCHANGED <<hid_pc, hid_read, hid_rx>>
    /\ UNCHANGED notHid

\* usb_processing_loop returns (main.rs lines 455-471) and hid_rx, which
\* it owns, is dropped with what was queued.
HidRxDropped(r) ==
    /\ hid_rx[r] = "alive"
    /\ hid_rx' = [hid_rx EXCEPT ![r] = "dropped"]
    /\ hid_queue' = [hid_queue EXCEPT ![r] = 0]
    /\ UNCHANGED <<hid_pc, hid_read>>
    /\ UNCHANGED notHid

HidNext ==
    \E r \in Readers :
       \/ HidSpawn(r)
       \/ \E outcome \in ReadOutcomes : HidRead(r, outcome)
       \/ HidHandle(r)
       \/ HidSendResumes(r)
       \/ HidRecv(r)
       \/ HidRxDropped(r)

\* Each reader thread is scheduled, and read_timeout returns within its
\* 100 ms. What the device delivers and when the worker exits is not
\* constrained.
HidFairness ==
    \A r \in Readers :
       /\ WF_vars(\E outcome \in ReadOutcomes : HidRead(r, outcome))
       /\ WF_vars(HidHandle(r))
       /\ WF_vars(HidSendResumes(r))

(***************************************************************************)
(* main.rs: the live path of the worker loop; combo.rs: the two filters    *)
(***************************************************************************)
\* byte &= !mask
ClearBit(byte, mask) == IF HasBit(byte, mask) THEN byte - mask ELSE byte

\* SuppressedButtons::filter_buttons (combo.rs lines 57-63).
filter_buttons(sup, buttons) == buttons \ SuppressedSet(sup)

\* Mutant of filter_raw_report: the button field is taken to start one byte
\* early (BTN_BASE = 2).
FilterRawReportEarly(sup, report) ==
    IF sup = <<>> THEN report
    ELSE LET p == position(Head(sup))
             rest == FilterRawReportEarly(Tail(sup), report)
         IN [rest EXCEPT ![3 + p[1]] = ClearBit(rest[3 + p[1]], p[2])]

\* SuppressedButtons::filter_raw_report (combo.rs lines 67-75): BTN_BASE = 3
\* is a zero-based index, report[BTN_BASE + byte_idx] is element
\* 4 + byte_idx of the sequence. Clearing bits commutes, so the order of the
\* loop does not show.
filter_raw_report(sup, report) ==
    IF sup = <<>> THEN report
    ELSE LET p == position(Head(sup))
             rest == filter_raw_report(Tail(sup), report)
         IN [rest EXCEPT ![4 + p[1]] = ClearBit(rest[4 + p[1]], p[2])]

\* First button byte of the reports: subsets of B, A, X, R3.
LiveByte0Values ==
    {b + a + x + r : b \in {0, \h01}, a \in {0, \h02}, x \in {0, \h08},
                     r \in {0, \h80}}

\* Second button byte: subsets of DpadDown, DpadRight, DpadLeft, ZL, L3.
LiveByte1Values ==
    {d + r + l + z + s : d \in {0, \h01}, r \in {0, \h02}, l \in {0, \h04},
                         z \in {0, \h20}, s \in {0, \h80}}

\* Third button byte: Home, and the bits that name no button.
LiveByte2Values == {\h00, \h01, \hFC}

LiveInit ==
    /\ lv_in = <<>>
    /\ lv_held = {}
    /\ lv_buttons = {}
    /\ lv_filtered = <<>>
    /\ lv_frames = <<>>
    /\ lv_bt = <<>>

\* One iteration of the worker loop that reaches the live path (main.rs
\* lines 506-599): parse, combo.update, the filters when the mask is not
\* empty, the recorder's frame, the Bluetooth report with timer 0.
\* recording is recorder.recording after the action of this iteration was
\* handled (lines 513-578). The mask returned by update depends on the
\* buttons only (UpdateSuppressed). The sticks are read at their centre:
\* the button bytes of the Bluetooth report do not depend on them.
LiveReport(raw, recording) ==
    /\ lv_in = <<>>
    /\ LET parsed == parse_hid_report(raw)
           suppressed == UpdateSuppressed(parsed.buttons)
           buttons == IF suppressed # <<>>
                      THEN filter_buttons(suppressed, parsed.buttons)
                      ELSE parsed.buttons
           filtered_report == IF suppressed # <<>>
                              THEN filter_raw_report(suppressed, raw)
                              ELSE raw
       IN /\ lv_in' = raw
          /\ lv_held' = parsed.buttons
          /\ lv_buttons' = buttons
          /\ lv_filtered' = filtered_report
          /\ lv_frames' = IF recording THEN <<filtered_report>> ELSE <<>>
          /\ lv_bt' = build_bt_report(buttons, <<0, 0>>, <<0, 0>>, 0)
    /\ UNCHANGED notLive

\* The next iteration starts: its report is independent of this one.
LiveNextIteration ==
    /\ lv_in # <<>>
    /\ lv_in' = <<>>
    /\ lv_held' = {}
    /\ lv_buttons' = {}
    /\ lv_filtered' = <<>>
    /\ lv_frames' = <<>>
    /\ lv_bt' = <<>>
    /\ UNCHANGED notLive

LiveNext ==
    \/ \E b0 \in LiveByte0Values, b1 \in LiveByte1Values,
          b2 \in LiveByte2Values, recording \in BOOLEAN :
          LiveReport(UsbReport(<<b0, b1, b2>>, <<\h00, \h08, \h80>>,
                               <<\h00, \h08, \h80>>, 36, 36, 0), recording)
    \/ LiveNextIteration

(***************************************************************************)
(* macro_engine/player.rs: one playback without looping, from load to end  *)
(***************************************************************************)
\* The player is set up before the playback: load on a file of PlayerDir.
PlaybackLoad(macro_id, io) ==
    /\ ~pl_playing
    /\ pl_now = 0
    /\ PlayerLoad(macro_id, io)

\* The speed is chosen before the playback.
PlaybackCycleSpeed ==
    /\ ~pl_playing
    /\ pl_now = 0
    /\ PlayerCycleSpeed

\* start(false), as the worker calls it (main.rs line 567).
PlaybackStart ==
    /\ ~pl_playing
    /\ pl_now = 0
    /\ PlayerStart(FALSE)

PlaybackNext ==
    \/ \E macro_id \in 1..8, io \in IoOutcomes : PlaybackLoad(macro_id, io)
    \/ PlaybackCycleSpeed
    \/ PlaybackStart
    \/ PlayerGetFrame
    \/ PlayerTick

\* get_frame keeps being called and time advances.
PlaybackFairness ==
    /\ WF_vars(PlayerGetFrame)
    /\ WF_vars(PlayerTick)

(***************************************************************************)
(* main.rs: usb_processing_loop, web commands, playback override, actions  *)
(***************************************************************************)
\* The macros directory of the worker: macros 1 (frames at 0, 1000 and
\* 2000 us), 2 (two frames at 1000 us) and 3 (macro 1 cut after its first
\* frame) of PlayerDir.
WorkDir == [files |-> PlayerDir.files, index |-> SubSeq(PlayerDir.index, 1, 3)]

\* MacroPlayer::new (player.rs lines 28-40).
NewPlayer ==
    [playing |-> FALSE, looping |-> FALSE, mmap |-> <<>>, frame_count |-> 0,
     frame_index |-> 0, start |-> <<>>, last_idx |-> 0]

\* MacroPlayer::get_frame (player.rs lines 139-179) on the player p at
\* time t, speed 1.0: the player afterwards and the number of the frame
\* returned, 0 for None.
get_frame(p, t) ==
    IF ~p.playing \/ p.mmap = <<>> \/ p.start = <<>>
    THEN [p |-> p, idx |-> 0]
    ELSE LET st == AdvanceFrames(wk_dir.files[p.mmap[1]], p.frame_count,
                                 ElapsedUs(p.start[1], t, 1000),
                                 [frame_index |-> p.frame_index,
                                  last_report |-> <<>>,
                                  last_idx |-> p.last_idx])
             idx == st.last_idx
         IN IF st.frame_index >= p.frame_count /\ ~p.looping
            THEN [p |-> [p EXCEPT !.playing = FALSE,
                                  !.frame_index = st.frame_index,
                                  !.last_idx = 0],
                  idx |-> idx]
            ELSE IF st.frame_index >= p.frame_count
            THEN [p |-> [p EXCEPT !.frame_index = 0, !.start = <<t>>,
                                  !.last_idx = idx],
                  idx |-> idx]
            ELSE [p |-> [p EXCEPT !.frame_index = st.frame_index,
                                  !.last_idx = idx],
                  idx |-> idx]

\* MacroPlayer::stop (player.rs lines 114-118).
stop(p) == [p EXCEPT !.playing = FALSE, !.looping = FALSE]

\* player.load(macros_dir, macro_id) and, when it returns true,
\* player.start(false) (main.rs lines 415-417 and 565-567). load is given
\* the fields it reads and writes; of the mapping it returns, the player of
\* the model keeps the name of the file.
load_and_start(p, macro_id, t) ==
    LET r == load([mmap |-> p.mmap, frame_count |-> p.frame_count,
                   frame_index |-> p.frame_index, last_report |-> <<>>],
                  wk_dir.files, wk_dir.index, macro_id, "ok")
        q == [p EXCEPT !.mmap = <<get_macro_info(wk_dir.index,
                                                 macro_id)[1].filename>>,
                       !.frame_count = r.frame_count,
                       !.frame_index = r.frame_index,
                       !.last_idx = 0]
    IN IF ~r.ret THEN [p |-> [p EXCEPT !.mmap = r.mmap], loaded |-> FALSE]
       ELSE IF r.frame_count = 0
       THEN [p |-> q, loaded |-> TRUE]
       ELSE [p |-> [q EXCEPT !.playing = TRUE, !.looping = FALSE,
                             !.frame_index = 0, !.start = <<t>>,
                             !.last_idx = 0],
             loaded |-> TRUE]

\* The commands and combo actions that touch the player or the LED. The
\* handlers of the web command (main.rs lines 358-427) and of the combo
\* action (lines 513-578) are the same code for them. The recorder is kept
\* as its flag and the macros directory as it is: what a save adds to the
\* index is the subject of the controller model.
WorkActions ==
    {"None", "ToggleMacroMode", "ToggleRecording", "PrevSlot", "NextSlot",
     "PlayMacro", "StopPlayback"}

\* The worker's state after the handler of a command or combo action, on
\* the state w = [player, macro_mode, recording, slot, led] at time t.
WorkHandle(w, what, t) ==
    CASE what = "ToggleMacroMode" ->
           IF ~w.macro_mode
           THEN [w EXCEPT !.macro_mode = TRUE, !.led = "LED_MACRO_MODE"]
           ELSE [w EXCEPT !.macro_mode = FALSE, !.recording = FALSE,
                          !.led = "LED_NORMAL"]
      [] what = "ToggleRecording" ->
           IF w.recording
           THEN [w EXCEPT !.recording = FALSE, !.led = "LED_MACRO_MODE"]
           ELSE [w EXCEPT !.recording = TRUE, !.led = "LED_RECORDING"]
      [] what = "PrevSlot" ->
           [w EXCEPT !.slot = prev_slot(@, Len(wk_dir.index))]
      [] what = "NextSlot" ->
           [w EXCEPT !.slot = next_slot(@, Len(wk_dir.index))]
      [] what = "PlayMacro" ->
           LET macro_id == get_macro_id_by_slot(wk_dir.index, w.slot)
               r == load_and_start(w.player, macro_id[1], t)
           IN IF macro_id = <<>> THEN w
              ELSE [w EXCEPT !.player = r.p,
                             !.led = IF r.loaded THEN "LED_PLAYBACK" ELSE @]
      [] what = "StopPlayback" ->
           IF w.player.playing
           THEN [w EXCEPT !.player = stop(@),
                          !.led = mode_led(w.macro_mode)]
           ELSE w
      [] OTHER -> w

\* The worker's state as a record, and its assignment.
WorkState ==
    [player |-> wk_player, macro_mode |-> wk_macro_mode,
     recording |-> wk_recording, slot |-> wk_slot, led |-> wk_led]

WorkBecomes(w) ==
    /\ wk_player' = w.player
    /\ wk_macro_mode' = w.macro_mode
    /\ wk_recording' = w.recording
    /\ wk_slot' = w.slot
    /\ wk_led' = w.led

WorkInit ==
    /\ wk_player = NewPlayer
    /\ wk_macro_mode = FALSE
    /\ wk_recording = FALSE
    /\ wk_slot = 0
    /\ wk_led = ""
    /\ wk_now = 0
    /\ wk_dir = WorkDir
    /\ wk_op = [step |-> "new", what |-> "None", idx |-> -1, sent |-> "none"]

\* One web command taken from the queue at the top of an iteration (main.rs
\* lines 356-452).
WorkCommand(cmd) ==
    /\ WorkBecomes(WorkHandle(WorkState, cmd, wk_now))
    /\ wk_op' = [step |-> "command", what |-> cmd, idx |-> -1, sent |-> "none"]
    /\ UNCHANGED <<wk_now, wk_dir>>
    /\ UNCHANGED notWork

\* The rest of an iteration that received a HID report (main.rs lines
\* 473-605); action is what combo.update returned for it. While a playback
\* runs: get_frame; with a frame, the macro frame is queued, StopPlayback is
\* the only action looked at and the iteration ends (lines 474-496); with no
\* frame, player.stop() and the LED of the mode (lines 497-502), and the
\* iteration goes on as for live input. combo.update returns
\* ToggleRecording only in macro mode (combo.rs line 139).
WorkReport(action) ==
    /\ action = "ToggleRecording" => wk_macro_mode
    /\ LET r == get_frame(wk_player, wk_now)
           w == [WorkState EXCEPT !.player = r.p]
           stopped == [w EXCEPT !.player = stop(@),
                                !.led = mode_led(w.macro_mode)]
           override == wk_player.playing /\ r.idx # 0
       IN /\ WorkBecomes(
                 IF override
                 THEN IF action = "StopPlayback" THEN stopped ELSE w
                 ELSE WorkHandle(IF wk_player.playing THEN stopped
                                 ELSE WorkState,
                                 action, wk_now))
          /\ wk_op' = [step |-> "report", what |-> action,
                       idx |-> IF wk_player.playing THEN r.idx ELSE -1,
                       sent |-> IF override THEN "macro" ELSE "live"]
    /\ UNCHANGED <<wk_now, wk_dir>>
    /\ UNCHANGED notWork

\* Time passes.
WorkTick ==
    /\ wk_now < MaxPlayUs
    /\ wk_now' = wk_now + PlayTickUs
    /\ wk_op' = [step |-> "tick", what |-> "None", idx |-> -1, sent |-> "none"]
    /\ UNCHANGED <<wk_player, wk_macro_mode, wk_recording, wk_slot, wk_led,
                   wk_dir>>
    /\ UNCHANGED notWork

WorkNext ==
    \/ \E cmd \in WorkActions \ {"None"} : WorkCommand(cmd)
    \/ \E action \in WorkActions : WorkReport(action)
    \/ WorkTick

(***************************************************************************)
(* macro_engine/storage.rs: load_index and save_index on one file, the     *)
(* worker writing and a web handler reading                                *)
(***************************************************************************)
\* A JSON text, whole or cut: the opening bracket, the entries that are
\* complete in it, the closing bracket.
JsonText(open, entries, close) ==
    [open |-> open, entries |-> entries, close |-> close]

\* No file, or a file of length 0.
NoText == JsonText(FALSE, <<>>, FALSE)

\* serde_json::to_string_pretty(index) (line 61).
to_string_pretty(index) == JsonText(TRUE, index, TRUE)

\* serde_json::from_str(&data).unwrap_or_default() (line 50): a text that
\* is no complete array is an error, and the error becomes the empty Vec.
from_str_or_default(data) ==
    IF data.open /\ data.close THEN data.entries ELSE <<>>

\* load_index (lines 44-56) on the text of the file.
load_index(file) == from_str_or_default(file)

\* The text a first, short write leaves: the opening bracket and the first
\* k entries.
Prefix(data, k) == JsonText(TRUE, SubSeq(data.entries, 1, k), FALSE)

\* The mutations of the worker: save_macro of a recording, and rename_macro
\* and delete_macro of a macro.
IndexMutations ==
    {[op |-> "save_macro", id |-> 0]}
    \cup {[op |-> o, id |-> n] : o \in {"rename_macro", "delete_macro"},
                                 n \in 1..(MaxMacros + 1)}

\* The index a mutation hands to save_index, computed on the index it
\* loaded.
Mutated(index, m) ==
    CASE m.op = "save_macro" ->
           save_macro(<<>>, index, CtrlFrames, <<>>, IoServed).index
      [] m.op = "rename_macro" ->
           rename_macro(<<>>, index, m.id, "run",
                        [rename |-> "ok", index |-> "ok"]).index
      [] m.op = "delete_macro" ->
           delete_macro(<<>>, index, m.id,
                        [remove |-> "ok", index |-> "ok"]).index

\* Whether the mutation reaches save_index: save_macro always does,
\* rename_macro and delete_macro when they find the macro.
CallsSaveIndex(index, m) ==
    IF m.op = "save_macro" THEN Len(index) < MaxMacros
    ELSE FindEntry(index, m.id) # 0

IndexInit ==
    /\ ix_file = NoText
    /\ ix_pc = "idle"
    /\ ix_data = NoText
    /\ ix_before = <<>>
    /\ ix_after = <<>>
    /\ ix_seen = <<>>

\* The worker runs save_macro, rename_macro or delete_macro up to the start
\* of fs::write in save_index (line 63): load_index, the mutation, the
\* serialization, and the open of index.json for writing, which cuts it to
\* length 0. The model's index holds at most MaxMacros entries.
IndexWriteBegins(m) ==
    /\ ix_pc = "idle"
    /\ CallsSaveIndex(load_index(ix_file), m)
    /\ ix_before' = load_index(ix_file)
    /\ ix_after' = Mutated(load_index(ix_file), m)
    /\ ix_data' = to_string_pretty(Mutated(load_index(ix_file), m))
    /\ ix_file' = NoText
    /\ ix_pc' = "truncated"
    /\ UNCHANGED ix_seen
    /\ UNCHANGED notIndex

\* write_all inside fs::write: a first write puts a part of the text.
IndexWritePart(k) ==
    /\ ix_pc = "truncated"
    /\ k <= Len(ix_data.entries)
    /\ ix_file' = Prefix(ix_data, k)
    /\ ix_pc' = "partial"
    /\ UNCHANGED <<ix_data, ix_before, ix_after, ix_seen>>
    /\ UNCHANGED notIndex

\* write_all has put the whole text; fs::write returns.
IndexWriteEnds ==
    /\ ix_pc \in {"truncated", "partial"}
    /\ ix_file' = ix_data
    /\ ix_pc' = "idle"
    /\ ix_data' = NoText
    /\ UNCHANGED <<ix_before, ix_after, ix_seen>>
    /\ UNCHANGED notIndex

\* A web handler calls list_macros (web/mod.rs lines 70-73 and 84), which
\* is load_index on the file as it is now.
IndexRead ==
    /\ ix_seen = <<>>
    /\ ix_seen' = <<load_index(ix_file)>>
    /\ UNCHANGED <<ix_file, ix_pc, ix_data, ix_before, ix_after>>
    /\ UNCHANGED notIndex

\* The handler has sent its response.
IndexResponded ==
    /\ ix_seen # <<>>
    /\ ix_seen' = <<>>
    /\ UNCHANGED <<ix_file, ix_pc, ix_data, ix_before, ix_after>>
    /\ UNCHANGED notIndex

IndexNext ==
    \/ \E m \in IndexMutations : IndexWriteBegins(m)
    \/ \E k \in 0..MaxMacros : IndexWritePart(k)
    \/ IndexWriteEnds
    \/ IndexRead
    \/ IndexResponded

(***************************************************************************)
(* main.rs: the Bluetooth setup loop; bt/sdp.rs: the four setup functions  *)
(***************************************************************************)
\* Attempts of the setup sequence in a run of the model.
MaxAttempts == 3

\* The properties configure_adapter sets, in its order (sdp.rs lines
\* 217-253).
AdapterProperties ==
    <<"Alias", "Discoverable", "Pairable", "Powered", "DiscoverableTimeout",
      "PairableTimeout">>

\* Mutant of AfterStep: the device class is set before the profile is
\* registered.
AfterStepClassEarly(step) ==
    CASE step = "connect" -> "agent"
      [] step = "agent" -> "adapter"
      [] step = "adapter" -> "name"
      [] step = "class" -> "profile"
      [] step = "profile" -> "done"

\* The async block of the loop (main.rs lines 92-97): what follows a step
\* that succeeded. set_device_class is the steps "name" and "class".
AfterStep(step) ==
    CASE step = "connect" -> "agent"
      [] step = "agent" -> "adapter"
      [] step = "adapter" -> "profile"
      [] step = "profile" -> "name"
      [] step = "class" -> "done"

\* The answers of BlueZ to a registration: done, already exists (which the
\* code takes as success), another error.
RegisterOutcomes == {"ok", "exists", "err"}

SetupInit ==
    /\ bs_pc = "connect"
    /\ bs_prop = 1
    /\ bs_log = <<>>
    /\ bs_tolerated = {}
    /\ bs_attempts = 1

\* A step of the block failed: `?` leaves the block, the loop logs and
\* sleeps 3 s (main.rs lines 102-105).
SetupFails ==
    /\ bs_pc' = "sleep"
    /\ UNCHANGED <<bs_prop, bs_log, bs_tolerated, bs_attempts>>

\* zbus::Connection::system() (main.rs line 92).
SetupConnect(outcome) ==
    /\ bs_pc = "connect"
    /\ IF outcome = "ok"
       THEN /\ bs_pc' = AfterStep("connect")
            /\ UNCHANGED <<bs_prop, bs_log, bs_tolerated, bs_attempts>>
       ELSE SetupFails
    /\ UNCHANGED notSetup

\* register_agent (sdp.rs lines 158-198): RegisterAgent answered with
\* "already exists" counts as done; the answer to RequestDefaultAgent is
\* dropped.
SetupRegisterAgent(outcome) ==
    /\ bs_pc = "agent"
    /\ IF outcome # "err"
       THEN /\ bs_pc' = AfterStep("agent")
            /\ bs_log' = Append(bs_log, "agent")
            /\ bs_tolerated' = IF outcome = "exists"
                               THEN bs_tolerated \cup {"agent"}
                               ELSE bs_tolerated
            /\ UNCHANGED <<bs_prop, bs_attempts>>
       ELSE SetupFails
    /\ UNCHANGED notSetup

\* One proxy.set(...).await? of configure_adapter (sdp.rs lines 217-253);
\* after the last one the function returns Ok.
SetupSetProperty(outcome) ==
    /\ bs_pc = "adapter"
    /\ IF outcome = "ok"
       THEN /\ bs_log' = Append(bs_log, AdapterProperties[bs_prop])
            /\ IF bs_prop = Len(AdapterProperties)
               THEN bs_pc' = AfterStep("adapter") /\ bs_prop' = 1
               ELSE bs_prop' = bs_prop + 1 /\ UNCHANGED bs_pc
            /\ UNCHANGED <<bs_tolerated, bs_attempts>>
       ELSE SetupFails
    /\ UNCHANGED notSetup

\* register_sdp_profile (sdp.rs lines 298-339).
SetupRegisterProfile(outcome) ==
    /\ bs_pc = "profile"
    /\ IF outcome # "err"
       THEN /\ bs_pc' = AfterStep("profile")
            /\ bs_log' = Append(bs_log, "profile")
            /\ bs_tolerated' = IF outcome = "exists"
                               THEN bs_tolerated \cup {"profile"}
                               ELSE bs_tolerated
            /\ UNCHANGED <<bs_prop, bs_attempts>>
       ELSE SetupFails
    /\ UNCHANGED notSetup

\* set_device_class, first half (sdp.rs lines 265-280): the 500 ms sleep and
\* hciconfig hci0 name.
SetupName(outcome) ==
    /\ bs_pc = "name"
    /\ IF outcome = "ok"
       THEN /\ bs_pc' = "class"
            /\ bs_log' = Append(bs_log, "name")
            /\ UNCHANGED <<bs_prop, bs_tolerated, bs_attempts>>
       ELSE SetupFails
    /\ UNCHANGED notSetup

\* set_device_class, second half (sdp.rs lines 282-295): hciconfig hci0
\* class 0x002508.
SetupClass(outcome) ==
    /\ bs_pc = "class"
    /\ IF outcome = "ok"
       THEN /\ bs_pc' = AfterStep("class")
            /\ bs_log' = Append(bs_log, "class")
            /\ UNCHANGED <<bs_prop, bs_tolerated, bs_attempts>>
       ELSE SetupFails
    /\ UNCHANGED notSetup

\* The 3 s are over: the loop runs the block again, from a new connection.
SetupRetry ==
    /\ bs_pc = "sleep"
    /\ bs_attempts < MaxAttempts
    /\ bs_pc' = "connect"
    /\ bs_prop' = 1
    /\ bs_log' = <<>>
    /\ bs_tolerated' = {}
    /\ bs_attempts' = bs_attempts + 1
    /\ UNCHANGED notSetup

\* `break conn` (main.rs line 100): main goes on to the state emitter and
\* the hardware lifecycle loop (lines 109-304), which hold no call of
\* bt::sdp and run no hciconfig.
SetupProceeds ==
    /\ bs_pc = "done"
    /\ bs_pc' = "lifecycle"
    /\ UNCHANGED <<bs_prop, bs_log, bs_tolerated, bs_attempts>>
    /\ UNCHANGED notSetup

SetupNext ==
    \/ \E outcome \in {"ok", "err"} : SetupConnect(outcome)
    \/ \E outcome \in RegisterOutcomes : SetupRegisterAgent(outcome)
    \/ \E outcome \in {"ok", "err"} : SetupSetProperty(outcome)
    \/ \E outcome \in RegisterOutcomes : SetupRegisterProfile(outcome)
    \/ \E outcome \in {"ok", "err"} : SetupName(outcome)
    \/ \E outcome \in {"ok", "err"} : SetupClass(outcome)
    \/ SetupRetry
    \/ SetupProceeds

(***************************************************************************)
(* Specifications: one per component.                                      *)
(***************************************************************************)
Init ==
    /\ ComboInit
    /\ ProtoInit
    /\ PairInit
    /\ ReportInit
    /\ ParseInit
    /\ ChanInit
    /\ StateInit
    /\ StoreInit
    /\ PlayerInit
    /\ CtrlInit
    /\ LockInit
    /\ SupInit
    /\ SessInit
    /\ DownInit
    /\ HidInit
    /\ LiveInit
    /\ WorkInit
    /\ IndexInit
    /\ SetupInit

SpecCombo == Init /\ [][ComboNext]_vars

SpecProto == Init /\ [][ProtoNext]_vars

SpecPair == Init /\ [][PairNext]_vars

SpecReport == Init /\ [][ReportNext]_vars

SpecParse == Init /\ [][ParseNext]_vars

SpecChan == Init /\ [][ChanNext]_vars

SpecState == Init /\ [][StateNext]_vars

SpecStore == Init /\ [][StoreNext]_vars

SpecRecorder == Init /\ [][RecorderNext]_vars

SpecPlayer == Init /\ [][PlayerNext]_vars

SpecCtrl == Init /\ [][CtrlNext]_vars

SpecLock == Init /\ [][LockNext]_vars /\ LockFairness

SpecSup == Init /\ [][SupNext]_vars /\ SupFairness

SpecSess == Init /\ [][SessNext]_vars

SpecDown == Init /\ [][DownNext]_vars

SpecHid == Init /\ [][HidNext]_vars /\ HidFairness

SpecLive == Init /\ [][LiveNext]_vars

SpecPlayback == Init /\ [][PlaybackNext]_vars /\ PlaybackFairness

SpecWork == Init /\ [][WorkNext]_vars

SpecIndex == Init /\ [][IndexNext]_vars

SpecSetup == Init /\ [][SetupNext]_vars


(***************************************************************************)
(* Claims about the combo detector, checked under SpecCombo.               *)
(***************************************************************************)
\* The action mapped to an instant-combo button.
MappedAction(btn) ==
    LET i == CHOOSE j \in 1..Len(INSTANT_COMBOS) : INSTANT_COMBOS[j][1] = btn
    IN INSTANT_COMBOS[i][2]

InstantButtons == {INSTANT_COMBOS[i][1] : i \in 1..Len(INSTANT_COMBOS)}

\* The instant-combo buttons that are pressed in `cur` and were not in `prev`.
Rising(prev, cur) == {b \in InstantButtons : b \in cur /\ b \notin prev}

\* C1 as stated: with L3+R3 held, every call on which one of A, B, D-pad
\* Left, D-pad Right has a rising edge returns that button's mapped action,
\* and a call on which the button was already pressed does not return it.
C1_EveryRisingEdge ==
    [][(cd_op' = "update" /\ BaseHeld(prev_buttons')) =>
          \A b \in InstantButtons :
             /\ b \in Rising(prev_buttons, prev_buttons')
                    => cd_action' = MappedAction(b)
             /\ (b \in prev_buttons /\ b \in prev_buttons')
                    => cd_action' # MappedAction(b)]_vars

\* C1 amended: with L3+R3 held, a call on which exactly one of A, B, D-pad
\* Left, D-pad Right has a rising edge returns that button's mapped action
\* and masks the button; a call on which the button was already pressed in
\* the previous call does not return its action, and with the sticks still
\* held, no rising edge and D-pad Down up, the call returns no action.
C1_SingleRisingEdge ==
    [][(cd_op' = "update" /\ BaseHeld(prev_buttons')) =>
          \A b \in InstantButtons :
             /\ Rising(prev_buttons, prev_buttons') = {b}
                    => /\ cd_action' = MappedAction(b)
                       /\ SuppressedContains(cd_suppressed', b)
             /\ (b \in prev_buttons /\ b \in prev_buttons')
                    => cd_action' # MappedAction(b)
             /\ (/\ Rising(prev_buttons, prev_buttons') = {}
                 /\ BaseHeld(prev_buttons)
                 /\ "DpadDown" \notin prev_buttons')
                    => cd_action' = "None"]_vars

\* C1 witness: the second frame of {L3,R3}, {L3,R3,A} returned
\* (PlayMacro, {L3,R3,A}).
C1_Witness ==
    /\ cd_op = "update"
    /\ prev_buttons = {"L3", "R3", "A"}
    /\ cd_action = "PlayMacro"
    /\ cd_suppressed = <<"L3", "R3", "A">>

\* C2 as stated (the "exactly once per hold, not again until released" and
\* "shorter holds emit nothing" clauses): during one continuous hold of
\* L3+R3+D-pad Down at most one call returns ToggleMacroMode, and none does
\* before the hold has lasted 0.5 s.
C2_OncePerHold ==
    /\ hold_toggles <= 1
    /\ (cd_op = "update" /\ cd_action = "ToggleMacroMode")
          => (hold_begin # <<>> /\ now - hold_begin[1] >= HOLD_DURATION)

\* C3 as stated: a call whose pressed buttons are exactly L3 and R3, on the
\* frame on which both become held, returns the mask {L3, R3} and no action.
C3_StickPressNoAction ==
    [][(cd_op' = "update" /\ prev_buttons' = {"L3", "R3"}
          /\ ~BaseHeld(prev_buttons)) =>
          /\ cd_suppressed' = <<"L3", "R3">>
          /\ cd_action' = "None"]_vars

\* C3 amended: a call whose pressed buttons are exactly L3 and R3, on the
\* frame on which both become held, returns the mask {L3, R3} and nothing
\* else; it returns no action when macro mode is off and ToggleRecording
\* when macro mode is on.
C3_StickPressMask ==
    [][(cd_op' = "update" /\ prev_buttons' = {"L3", "R3"}
          /\ ~BaseHeld(prev_buttons)) =>
          /\ cd_suppressed' = <<"L3", "R3">>
          /\ cd_action' = IF macro_mode THEN "ToggleRecording" ELSE "None"]_vars

\* C3 witness: both sticks were just pressed alone, in macro mode.
C3_Witness ==
    /\ cd_op = "update"
    /\ prev_buttons = {"L3", "R3"}
    /\ macro_mode
    /\ cd_action = "ToggleRecording"
    /\ cd_suppressed = <<"L3", "R3">>

\* The action C4 prescribes: the first rule that fires, in the order hold
\* completion, D-pad Left, D-pad Right, A, B, ToggleRecording.
FirstRuleAction(buttons, start, prev, prevBase, mode, t) ==
    LET holdDone == "DpadDown" \in buttons /\ start # <<>>
                    /\ t - start[1] >= HOLD_DURATION
        rising == Rising(prev, buttons)
        first == CHOOSE i \in 1..Len(INSTANT_COMBOS) :
                    /\ INSTANT_COMBOS[i][1] \in rising
                    /\ \A j \in 1..(i - 1) : INSTANT_COMBOS[j][1] \notin rising
    IN IF holdDone THEN "ToggleMacroMode"
       ELSE IF rising # {} THEN INSTANT_COMBOS[first][2]
       ELSE IF mode /\ ~prevBase /\ "DpadDown" \notin buttons
               /\ buttons \cap InstantButtons = {}
            THEN "ToggleRecording"
       ELSE "None"

\* C4 as stated: each call returns one action, that of the rule that comes
\* first in the order hold completion, D-pad Left, D-pad Right, A, B,
\* ToggleRecording; a hold completion that coincides with an instant-combo
\* rising edge returns ToggleMacroMode.
C4_FirstRuleWins ==
    [][(cd_op' = "update" /\ BaseHeld(prev_buttons')) =>
          cd_action' = FirstRuleAction(prev_buttons', dpad_down_start,
                                       prev_buttons, prev_base_held,
                                       macro_mode, now)]_vars

\* C5: update returns ToggleRecording exactly when macro mode is on, both
\* stick buttons are held now and were not both held in the previous call,
\* and none of D-pad Down, D-pad Left, D-pad Right, A, B is held.
C5_ToggleRecording ==
    [][cd_op' = "update" =>
          (cd_action' = "ToggleRecording" <=>
              /\ macro_mode
              /\ BaseHeld(prev_buttons')
              /\ ~BaseHeld(prev_buttons)
              /\ prev_buttons' \cap
                    {"DpadDown", "DpadLeft", "DpadRight", "A", "B"} = {})]_vars

\* C5 witness: a call returned ToggleRecording.
C5_Witness ==
    /\ cd_op = "update"
    /\ cd_action = "ToggleRecording"
    /\ macro_mode
    /\ prev_base_held

(***************************************************************************)
(* Claims about pairing and the subcommand protocol.                       *)
(***************************************************************************)
\* C6: run_pairing has returned success exactly when both a 0x48 and a 0x30
\* subcommand have been replied to: it returns on the step that writes the
\* second of the two replies, in either order, and never with only one or
\* neither replied to.
C6_PairingSuccess ==
    (pr_pc = "ok") <=> ({\h30, \h48} \subseteq pr_replied)

\* C6 witness: pairing succeeded on the reply to 0x30, 0x48 having been
\* answered earlier, with other subcommands answered in between.
C6_Witness ==
    /\ pr_pc = "ok"
    /\ itr_out.site = "reply"
    /\ SubcmdId(itr_out.req) = \h30
    /\ {\h02, \h48} \subseteq pr_replied

\* The subcommand table of C7: id -> (ACK, payload).
C7_Table(id, data) ==
    CASE id = \h02 ->
            [ack |-> \h82,
             data |-> << \h03, \h48, \h03, \h02,
                         \h98, \hB6, \hE9, \h46, \h50, \h6A, \h01, \h01 >>]
      [] id = \h04 -> [ack |-> \h83, data |-> <<>>]
      [] id = \h10 /\ Len(data) >= 5 -> [ack |-> \h90, data |-> sc_ret.data]
      [] id = \h21 ->
            [ack |-> \hA0,
             data |-> << \h01, \h00, \hFF, \h00, \h03, \h00, \h05, \h01 >>]
      [] id = \h48 -> [ack |-> \h82, data |-> <<>>]
      [] OTHER -> [ack |-> \h80, data |-> <<>>]

\* C7 as stated: handle_subcommand answers every id, each listed id with the
\* listed ACK byte and payload (0x02 -> 0x82 and the 12-byte device info,
\* 0x04 -> 0x83, 0x10 -> 0x90, 0x21 -> 0xA0 and the 8-byte blob,
\* 0x48 -> 0x82, the others listed -> 0x80 and empty), every unlisted id
\* with (0x80, empty).
C7_SubcommandTable ==
    sc_id # -1 => sc_ret = C7_Table(sc_id, sc_data)

\* C8 as stated: every subcommand reply written to the console is 50 bytes:
\* 0xA1, 0x21, timer, 0x90, three zero button bytes, 00 08 80 00 08 80,
\* 0xB0, the ACK, the subcommand id answered, then the reply payload.
C8_ReplyFraming ==
    itr_out.site = "reply" =>
        LET b == itr_out.bytes
            id == SubcmdId(itr_out.req)
            r == handle_subcommand(id, SubcmdData(itr_out.req))
            n == Min(Len(r.data), 50 - 16)
        IN /\ Len(b) = 50
           /\ At(b, 0) = \hA1
           /\ At(b, 1) = \h21
           /\ At(b, 2) = (timer + 255) % 256
           /\ At(b, 3) = \h90
           /\ \A k \in 4..6 : At(b, k) = 0
           /\ SubSeq(b, 8, 13) = << \h00, \h08, \h80, \h00, \h08, \h80 >>
           /\ At(b, 13) = \hB0
           /\ At(b, 14) = r.ack
           /\ At(b, 15) = id
           /\ SubSeq(b, 17, 16 + n) = SubSeq(r.data, 1, n)

C10_BtLayout(btn) ==
    CASE btn = "Y" -> <<4, \h01>>  [] btn = "X" -> <<4, \h02>>
      [] btn = "B" -> <<4, \h04>>  [] btn = "A" -> <<4, \h08>>
      [] btn = "R" -> <<4, \h40>>  [] btn = "ZR" -> <<4, \h80>>
      [] btn = "Minus" -> <<5, \h01>>  [] btn = "Plus" -> <<5, \h02>>
      [] btn = "R3" -> <<5, \h04>>  [] btn = "L3" -> <<5, \h08>>
      [] btn = "Home" -> <<5, \h10>>  [] btn = "Capture" -> <<5, \h20>>
      [] btn = "DpadDown" -> <<6, \h01>>  [] btn = "DpadUp" -> <<6, \h02>>
      [] btn = "DpadRight" -> <<6, \h04>>  [] btn = "DpadLeft" -> <<6, \h08>>
      [] btn = "L" -> <<6, \h40>>  [] btn = "ZL" -> <<6, \h80>>

\* C10: for each of the 18 buttons, the report built from an input with only
\* that button set and both sticks calibrated to centre has, in bytes 4-6,
\* exactly the bit the Bluetooth layout table gives for the button, and
\* bytes 7..=12 = 00 08 80 00 08 80; for A: byte 4 = 0x08, bytes 5, 6 = 0.
C10_SingleButtonReport ==
    \A btn \in Buttons :
       (/\ rp_in # <<>>
        /\ rp_in.buttons = {btn}
        /\ rp_in.left_cal = <<0, 0>>
        /\ rp_in.right_cal = <<0, 0>>) =>
          /\ Len(rp_out) = 50
          /\ \A k \in 4..6 :
                At(rp_out, k) = IF C10_BtLayout(btn)[1] = k
                                THEN C10_BtLayout(btn)[2] ELSE 0
          /\ SubSeq(rp_out, 8, 13) = << \h00, \h08, \h80, \h00, \h08, \h80 >>
          /\ btn = "A" => SubSeq(rp_out, 5, 7) = << \h08, 0, 0 >>

\* C10 witness: the report for A alone with centred sticks was built.
C10_Witness ==
    /\ rp_in # <<>>
    /\ rp_in.buttons = {"A"}
    /\ rp_in.left_cal = <<0, 0>>
    /\ rp_in.right_cal = <<0, 0>>
    /\ At(rp_out, 4) = \h08

(***************************************************************************)
(* Claims about parse_hid_report, checked under SpecParse.                 *)
(***************************************************************************)
\* The three button bytes with only the bit of btn set.
OnlyBit(btn) ==
    [i \in 1..3 |-> IF i = position(btn)[1] + 1 THEN position(btn)[2] ELSE 0]

\* C11: for every button B, a 64-byte USB report whose three button bytes
\* contain only B's (byte, mask) bit parses to a button state in which B is
\* set and each of the other 17 buttons is clear.
C11_PositionMatchesParse ==
    ph_in # <<>> =>
        \A btn \in Buttons :
            SubSeq(ph_in, 4, 6) = OnlyBit(btn) => ph_out.buttons = {btn}

\* C11 witness: a report with only Capture's bit in the button field, and
\* 0xFF in the bytes the parser ignores, parsed to Capture alone.
C11_Witness ==
    /\ ph_in # <<>>
    /\ SubSeq(ph_in, 4, 6) = OnlyBit("Capture")
    /\ ph_in[1] = \hFF
    /\ ph_out.buttons = {"Capture"}
    /\ Cardinality(Buttons) = 18

(***************************************************************************)
(* Claims about the report channel, checked under SpecChan.                *)
(***************************************************************************)
\* The worker's send step is never disabled by the state of the channel.
WorkerNeverBlocks ==
    (ch_sender_alive /\ produced < MaxReports) => ENABLED WorkerSend

\* What the forwarder received followed by what is queued is what was
\* accepted, in production order.
ForwarderOrder ==
    /\ ch_received \o ch_queue = ch_accepted
    /\ \A i, j \in 1..Len(ch_accepted) :
          i < j => ch_accepted[i] < ch_accepted[j]
    /\ Len(ch_queue) <= ReportChannelCapacity

\* A send on a full channel drops the new report and keeps the queue.
FullDropsNewest ==
    (produced' = produced + 1 /\ Len(ch_queue) = ReportChannelCapacity)
        => /\ ch_queue' = ch_queue
           /\ last_try_send' = "Full"
           /\ ch_accepted' = ch_accepted
           /\ produced' \in ch_dropped'

\* C12: the USB worker never blocks on the report channel (capacity 4); when
\* the channel is full the newly built report is dropped and the queued
\* reports are kept, and the forwarder receives the accepted reports in
\* exactly the order the worker produced them.
C12_ReportChannel ==
    /\ [](WorkerNeverBlocks /\ ForwarderOrder)
    /\ [][FullDropsNewest]_vars

\* C12 witness: a report was refused by a full channel, and the forwarder
\* has since received a report built after the refused one.
C12_Witness ==
    /\ ch_dropped # {}
    /\ \E i \in 1..Len(ch_received) :
          \E d \in ch_dropped : ch_received[i] > d
    /\ Len(ch_received) > ReportChannelCapacity

(***************************************************************************)
(* Claims about MitmState, checked under SpecState.                        *)
(***************************************************************************)
\* The step is a pop_if_changed call.
IsPop == ms_trace' # ms_trace /\ ms_trace'[Len(ms_trace')] \in {"pop_some", "pop_none"}

\* C13: for any sequential sequence of update and pop_if_changed calls,
\* pop_if_changed returns Some(the current snapshot) on the first call after
\* an update that replaced the stored snapshot with a different value, and
\* None on every later call until another such update; an update with a
\* snapshot equal to the stored one does not make the next pop return Some.
C13_PopIfChanged ==
    [][IsPop =>
         /\ ms_replaced => ms_pop' = <<ms_inner>>
         /\ ~ms_replaced => ms_pop' = <<>>
         /\ ms_inner' = ms_inner
         /\ ~ms_replaced']_vars

\* C13 witness: a replacing update was popped as Some, then an update with
\* the stored snapshot was followed by a pop that returned None.
C13_Witness ==
    /\ ms_trace = <<"update_new", "pop_some", "update_same", "pop_none">>
    /\ ms_pop = <<>>
    /\ ms_inner # DefaultSnapshot

(***************************************************************************)
(* Claims about the macro store, checked under SpecStore.                  *)
(***************************************************************************)
\* The file names the index names.
IndexedFiles == {fs_index[i].filename : i \in 1..Len(fs_index)}

\* C14: after any sequence of save, rename and delete operations on the
\* macro store (none of which met an I/O failure of the operating system),
\* every entry of the index names a file that exists in the macros
\* directory, and no .bin file created by the store exists that is not named
\* by an index entry.
C14_IndexMatchesFiles ==
    ~st_op.faults => IndexedFiles = DOMAIN fs_files

\* C15: after any sequence of save, rename and delete operations, no two
\* index entries share an id, and every successful save returns the id
\* max(existing ids) + 1 (1 when the index is empty) with filename
\* {id:03}_{name}.bin, where name defaults to macro_{id}.
C15_IdsAndFilenames ==
    /\ [](\A i, j \in 1..Len(fs_index) :
            fs_index[i].id = fs_index[j].id => i = j)
    /\ [][(st_op'.op = "save_macro" /\ st_op'.ret # <<>> /\ IoClean(st_op'.io))
          => LET id == st_op'.ret[1]
                 e == fs_index'[Len(fs_index')]
             IN /\ \A i \in 1..Len(fs_index) : fs_index[i].id < id
                /\ id = 1 \/ \E i \in 1..Len(fs_index) : fs_index[i].id = id - 1
                /\ Len(fs_index') = Len(fs_index) + 1
                /\ e.id = id
                /\ e.filename \in DOMAIN fs_files'
                /\ \/ e.name = "jump" /\ e.filename = Fmt03(id) \o "_jump.bin"
                   \/ /\ e.name = "macro_" \o Decimal(id)
                      /\ e.filename = Fmt03(id) \o "_macro_" \o Decimal(id) \o ".bin"
                /\ id = 2 => e.filename \in {"002_jump.bin", "002_macro_2.bin"}]_vars

\* C15 witness: with ids 1 and 2 saved and 1 deleted, the next save got id 3.
C15_Witness ==
    /\ st_op.op = "save_macro"
    /\ st_op.ret = <<3>>
    /\ Len(fs_index) = 2
    /\ fs_index[1].id = 2
    /\ fs_index[2].filename = "003_macro_3.bin"

(***************************************************************************)
(* Claims about the recorder, checked under SpecRecorder.                  *)
(***************************************************************************)
\* C17: if writing the macro file fails during save, save returns no id, the
\* index is left unmodified (no entry added), and the recorder's buffer is
\* empty afterwards, so an immediate second save returns no id as well; the
\* buffer is likewise empty after a successful save.
C17_FailedSaveClearsBuffer ==
    [][st_op'.op = "save" =>
         /\ rec_frames' = <<>>
         /\ st_op'.io.write = "fail" =>
               /\ st_op'.ret = <<>>
               /\ fs_index' = fs_index
               /\ fs_files' = fs_files
         /\ st_op.op = "save" => st_op'.ret = <<>>]_vars

\* C17 witness: a save of a non-empty buffer whose file write failed, then an
\* immediate second save that could write: both returned no id, nothing was
\* stored.
C17_Witness ==
    /\ st_op.op = "save"
    /\ st_op.n = 0
    /\ st_op.io.write = "ok"
    /\ st_op.ret = <<>>
    /\ st_op.faults
    /\ rec_recording
    /\ st_calls = 4
    /\ fs_index = <<>>
    /\ fs_files = <<>>

(***************************************************************************)
(* Claims about the player, checked under SpecPlayer.                      *)
(***************************************************************************)
\* The loaded file holds every frame its header counts.
WholeFile ==
    /\ pl_mmap # <<>>
    /\ pl_frame_count >= 1
    /\ Len(pl_mmap[1]) >= HEADER_SIZE + pl_frame_count * FRAME_SIZE

\* The timestamp of the last frame of the loaded file has been reached.
LastFrameDue ==
    LET offset == HEADER_SIZE + (pl_frame_count - 1) * FRAME_SIZE
    IN LeqBytes(SubSeq(pl_mmap[1], offset + 1, offset + 8),
                U64(pl_now - pl_start[1]))

\* C18: for a loaded macro played without looping at speed 1.0 whose last
\* frame has timestamp T, the first get_frame call made at elapsed time >= T
\* returns the final frame and leaves the player not playing, the final
\* frame is returned by exactly one get_frame call of that playback, and
\* every later get_frame returns nothing.
C18_FinalFrameOnce ==
    /\ []((~pl_run.looping /\ pl_run.steady) => pl_run.finals <= 1)
    /\ [][pl_op'.op = "get_frame" =>
            /\ (pl_playing /\ ~pl_run.looping /\ pl_run.steady /\ WholeFile
                /\ LastFrameDue)
                  => /\ pl_op'.idx = pl_frame_count
                     /\ pl_op'.ret = <<ReportOf(pl_frame_count)>>
                     /\ ~pl_playing'
                     /\ pl_run'.finals = 1
            /\ ~pl_playing => pl_op'.ret = <<>>]_vars

\* C18 witness: the three-frame macro was played without looping at speed
\* 1.0, its final frame was returned once, and a later call returned nothing.
C18_Witness ==
    /\ pl_op.op = "get_frame"
    /\ pl_op.ret = <<>>
    /\ ~pl_playing
    /\ pl_frame_count = 3
    /\ WholeFile
    /\ ~pl_run.looping
    /\ pl_run.steady
    /\ pl_run.finals = 1

\* The five presets.
PresetSpeeds == {SPEED_PRESETS[i] : i \in 1..Len(SPEED_PRESETS)}

\* C19 as stated: after any sequence of SetPlaybackSpeed(v) and CycleSpeed
\* commands, for any v, the player's speed is one of the five presets 0.25,
\* 0.5, 1.0, 2.0, 4.0.
C19_SpeedIsPreset == pl_speed \in PresetSpeeds

\* C19 as the code has it: the speed stays within [0.25, 4.0];
\* SetPlaybackSpeed(v) sets it to v clamped to that range, which keeps a v
\* inside the range that is not a preset; CycleSpeed sets it to a preset.
C19_SpeedInRange ==
    /\ [](250 <= pl_speed /\ pl_speed <= 4000)
    /\ [][/\ pl_op'.op = "set_speed" =>
               /\ pl_op'.arg < 250 => pl_speed' = 250
               /\ pl_op'.arg > 4000 => pl_speed' = 4000
               /\ (250 <= pl_op'.arg /\ pl_op'.arg <= 4000)
                     => pl_speed' = pl_op'.arg
          /\ pl_op'.op = "cycle_speed" => pl_speed' \in PresetSpeeds]_vars

\* C19 witness: SetPlaybackSpeed(3.0) left the speed at 3.0.
C19_Witness ==
    /\ pl_op.op = "set_speed"
    /\ pl_op.arg = 3000
    /\ pl_speed = 3000
    /\ pl_speed \notin PresetSpeeds

\* A player as MacroPlayer::new leaves it, for a load that follows a save.
NewPlayerFields ==
    [mmap |-> <<>>, frame_count |-> 0, frame_index |-> 0, last_report |-> <<>>]

\* C16: for every non-empty list of n frames, save writes a file of exactly
\* 16 + 72*n bytes whose header carries the current magic, frame count n and
\* duration equal to the last frame's timestamp, appends one index entry,
\* and a following load of the id found at that slot succeeds and reads
\* frame count n; saving [(0,F),(1000,F),(2000,F)] as "jump" into an empty
\* store gives id 1, file 001_jump.bin of 232 bytes, frame count 3, duration
\* 2000. (Saves whose writes were served.)
C16_SaveFormat ==
    [][(st_op'.op = "save_macro" /\ st_op'.n > 0 /\ IoClean(st_op'.io))
          => LET n == st_op'.n
                 slot == Len(fs_index') - 1
                 e == fs_index'[Len(fs_index')]
                 data == fs_files'[e.filename]
                 last == HEADER_SIZE + (n - 1) * FRAME_SIZE
                 loaded == load(NewPlayerFields, fs_files', fs_index',
                                get_macro_id_by_slot(fs_index', slot)[1], "ok")
             IN /\ st_op'.ret # <<>>
                /\ Len(fs_index') = Len(fs_index) + 1
                /\ get_macro_id_by_slot(fs_index', slot) = st_op'.ret
                /\ Len(data) = 16 + 72 * n
                /\ SubSeq(data, 1, 4) = <<\h4D, \h41, \h43, \h32>>
                /\ FromLeBytes(SubSeq(data, 9, 12)) = n
                /\ SubSeq(data, 13, 16) \o <<0, 0, 0, 0>>
                      = SubSeq(data, last + 1, last + 8)
                /\ loaded.ret
                /\ loaded.frame_count = n
                /\ (fs_index = <<>> /\ n = 3 /\ e.name = "jump")
                      => /\ st_op'.ret = <<1>>
                         /\ e.filename = "001_jump.bin"
                         /\ Len(data) = 232
                         /\ FromLeBytes(SubSeq(data, 13, 16)) = 2000]_vars

(***************************************************************************)
(* C20: slot arithmetic of the controller                                  *)
(***************************************************************************)
\* The slot a NextSlot or PrevSlot that started at slot, with count macros in
\* the index, has to select: +1 and -1 modulo count.
SlotModulo(cmd, slot, count) ==
    IF cmd = "NextSlot" THEN (slot + 1) % count ELSE (slot + count - 1) % count

\* The cursor is a slot of the index, 0 when the index is empty.
SlotInRange ==
    IF Len(fs_index) = 0 THEN current_slot = 0 ELSE current_slot < Len(fs_index)

\* A NextSlot or PrevSlot on an index that holds macros has moved the cursor
\* by one modulo their number.
SlotMovesModuloCount ==
    (ct_op.cmd \in {"NextSlot", "PrevSlot"} /\ ct_op.count > 0)
        => current_slot = SlotModulo(ct_op.cmd, ct_op.slot, ct_op.count)

\* PrevSlot, NextSlot, SelectSlot and PlayMacro on an empty index, and
\* SelectSlot(n) with n at or past the number of macros, leave the cursor
\* where it was.
SlotCommandIgnored ==
    (\/ /\ ct_op.cmd \in {"NextSlot", "PrevSlot", "SelectSlot", "PlayMacro"}
        /\ ct_op.count = 0
     \/ /\ ct_op.cmd = "SelectSlot"
        /\ ct_op.arg >= ct_op.count)
        => current_slot = ct_op.slot

\* A step that runs PrevSlot, NextSlot, SelectSlot or PlayMacro on an empty
\* index leaves the player as it was.
EmptyIndexKeepsPlayer ==
    (/\ ct_built
     /\ Len(fs_index) = 0
     /\ ct_cmds' # ct_cmds
     /\ ct_op'.cmd \in {"NextSlot", "PrevSlot", "SelectSlot", "PlayMacro"})
        => UNCHANGED playerVars

\* C20: NextSlot and PrevSlot move the current slot by +1 and -1 modulo the
\* number of macros, the current slot stays within [0, count) after any
\* sequence of commands, with zero macros PrevSlot, NextSlot, PlayMacro and
\* SelectSlot leave slot and player unchanged, and SelectSlot(n) with
\* n >= count is ignored.
C20_SlotArithmetic ==
    /\ [](SlotInRange /\ SlotMovesModuloCount /\ SlotCommandIgnored)
    /\ [][EmptyIndexKeepsPlayer]_vars

(***************************************************************************)
(* C21: the cursor after deleting the current macro                        *)
(***************************************************************************)
\* The step executes DeleteMacro for the macro that sits at the current slot.
DeletesCurrent ==
    /\ ct_op'.cmd = "DeleteMacro"
    /\ ct_cmds' # ct_cmds
    /\ get_macro_id_by_slot(fs_index, current_slot) = <<ct_op'.arg>>

\* C21 as stated: executing DeleteMacro for the macro at the current slot,
\* whatever the slot's position, leaves the cursor at the last remaining slot
\* (count - 1 after the delete), or at 0 when no macro remains.
C21_DeleteResetsToLast ==
    [][DeletesCurrent =>
          current_slot' = IF Len(fs_index') = 0 THEN 0
                          ELSE Len(fs_index') - 1]_vars

\* C21 amended: executing DeleteMacro for the macro at the current slot
\* leaves the cursor on the same slot number, which now holds the macro that
\* followed the deleted one, unless the deleted macro was the last of the
\* index: then the cursor moves to the last remaining slot, or to 0 when no
\* macro remains.
C21_DeleteClampsCursor ==
    [][DeletesCurrent =>
          /\ Len(fs_index') = Len(fs_index) - 1
          /\ current_slot' = IF Len(fs_index') = 0 THEN 0
                             ELSE IF current_slot = Len(fs_index) - 1
                             THEN Len(fs_index') - 1
                             ELSE current_slot
          /\ (current_slot < Len(fs_index') =>
                /\ current_slot' = current_slot
                /\ fs_index'[current_slot' + 1] = fs_index[current_slot + 2])]_vars

\* C21 witness: of three macros the one at slot 0, where the cursor was, has
\* been deleted, and the cursor is still at slot 0, not at the last slot 1.
C21_Witness ==
    /\ ct_op.cmd = "DeleteMacro"
    /\ ct_op.arg = 1
    /\ ct_op.slot = 0
    /\ ct_op.count = 3
    /\ ct_op.effect.broadcast_macros
    /\ Len(fs_index) = 2
    /\ fs_index[1].id = 2
    /\ current_slot = 0

(***************************************************************************)
(* C22: macro mode switched off while recording                            *)
(***************************************************************************)
\* The step executes ToggleMacroMode while macro mode is on and the recorder
\* is recording.
TogglesOffWhileRecording ==
    /\ ct_op'.cmd = "ToggleMacroMode"
    /\ ct_cmds' # ct_cmds
    /\ ct_macro_mode
    /\ rec_recording

\* C22: executing ToggleMacroMode while macro mode is on and the recorder is
\* recording leaves macro mode off and the recorder idle, commits the
\* buffered frames to the store as a new macro when the buffer is non-empty
\* (and the writes are served), and signals that the macro list must be
\* rebroadcast, for the combo-originated and the web-originated command alike.
C22_ToggleOffSavesRecording ==
    [][TogglesOffWhileRecording =>
          /\ ct_op'.origin \in Origins
          /\ ~ct_macro_mode'
          /\ ~rec_recording'
          /\ rec_frames' = <<>>
          /\ ct_op'.effect.broadcast_macros
          /\ (rec_frames # <<>> /\ ct_op'.served) =>
                LET id == next_id(fs_index)
                    entry == fs_index'[Len(fs_index')]
                IN /\ Len(fs_index') = Len(fs_index) + 1
                   /\ SubSeq(fs_index', 1, Len(fs_index)) = fs_index
                   /\ entry.id = id
                   /\ entry.frame_count = Len(rec_frames)
                   /\ entry.filename \in DOMAIN fs_files'
                   /\ entry.filename \notin DOMAIN fs_files
                   /\ fs_files'[entry.filename] = MacroFileData(rec_frames)
          /\ rec_frames = <<>> => UNCHANGED <<fs_files, fs_index>>]_vars

\* C22 witness: a ToggleMacroMode from the combo dispatcher found macro mode
\* on and a recording of two frames running, and the index has one more
\* macro of two frames.
C22_Witness ==
    /\ ct_op.cmd = "ToggleMacroMode"
    /\ ct_op.origin = "combo"
    /\ ct_op.served
    /\ ct_op.effect = MacroEffect("LED_NORMAL", TRUE)
    /\ ~ct_macro_mode
    /\ ~rec_recording
    /\ Len(fs_index) = ct_op.count + 1
    /\ fs_index[Len(fs_index)].frame_count = 2

(***************************************************************************)
(* C23: MitmState calls made concurrently return                           *)
(***************************************************************************)
\* C23: update (USB worker thread, supervisor), snapshot and pop_if_changed
\* (state emitter), running concurrently on different threads, never block
\* each other forever: under every interleaving each call that has begun
\* eventually returns.
C23_CallsReturn ==
    \A t \in LockThreads : (lk_pc[t] # "idle") ~> (lk_pc[t] = "idle")

(***************************************************************************)
(* C24: while the supervisor waits for a console, a firing of the 2 s USB  *)
(* probe that finds the worker running leaves the accept future and its    *)
(* sockets as they are; while both accepts are pending both listeners are  *)
(* open; and within the wait a new accept future is built only in place of *)
(* one that returned an error.                                             *)
(***************************************************************************)
ProbeFoundRunning ==
    /\ su_pc = "accept"
    /\ su_op'.op = "probe"
    /\ su_op'.arg = "running"

ListenersBound ==
    (accept_fut = "listening" /\ \A c \in Channels : accept_ch[c] = "pending")
        => \A c \in Channels : /\ ListenerOf(c) \in sk_opened
                               /\ sk_closes[ListenerOf(c)] = 0

RecreatedInWait ==
    /\ su_pc \in {"accept", "accept_sleep"}
    /\ su_pc' = "accept"
    /\ accept_fut' = "new"
    /\ accept_fut # "new"

C24_ProbeKeepsAcceptFuture ==
    /\ []ListenersBound
    /\ [][ProbeFoundRunning =>
             UNCHANGED <<su_pc, accept_fut, accept_ch, sk_opened, sk_closes,
                         psm_held>>]_vars
    /\ [][RecreatedInWait => accept_fut = "err"]_vars

\* The probe fired, with the worker running, between the two accepts.
C24_Witness ==
    /\ su_op = [op |-> "probe", arg |-> "running"]
    /\ su_pc = "accept"
    /\ accept_fut = "listening"
    /\ accept_ch["ctrl"] = "Ok"
    /\ accept_ch["itr"] = "pending"
    /\ sk_closes["itr_listener"] = 0

(***************************************************************************)
(* C25: once accept_connection has returned or its future was dropped,     *)
(* every socket it opened and did not hand to the session has been closed  *)
(* exactly once, and no listener of an earlier attempt still holds PSM 17  *)
(* or PSM 19.                                                              *)
(***************************************************************************)
AcceptEnded == accept_fut \in {"ok", "err", "dropped"}

C25_SocketsClosedOnce ==
    /\ AcceptEnded => \A s \in sk_opened \ sk_session : sk_closes[s] = 1
    /\ psm_held = {}

(***************************************************************************)
(* C28: whenever the USB processing worker has exited, the supervisor      *)
(* eventually leaves the Bluetooth loop and is back at USB initialisation, *)
(* whichever phase it was in: accept wait, pairing or forwarding.          *)
(***************************************************************************)
C28_WorkerExitReachesUsbInit ==
    (~usb_running) ~> (su_pc = "usb_init")

(***************************************************************************)
(* C26: a round of the forwarding loop in which a write on the interrupt   *)
(* channel failed (the forwarded report or a subcommand reply), or in      *)
(* which the poll met a closed or reset channel, ends the loop: the        *)
(* Bluetooth-connected flag is cleared and the supervisor waits for a new  *)
(* console connection.                                                     *)
(***************************************************************************)
RoundFailed ==
    /\ se_pc = "forwarding"
    /\ se_op'.op = "forward"
    /\ se_op'.outcome \in {"send_err", "reply_err", "closed", "reset"}

C26_FailedRoundEndsLoop ==
    [][RoundFailed => (se_pc' = "waiting" /\ ~se_bt_connected')]_vars

(***************************************************************************)
(* C29: in the forwarding loop the forwarded input report carries the      *)
(* value of the loop's counter, whatever timer the builder had written,    *)
(* and every report written, forwarded report or subcommand reply, carries *)
(* the timer of the report written before it in the loop plus 1 modulo     *)
(* 256.                                                                    *)
(***************************************************************************)
ForwardWrites ==
    /\ se_pc = "forwarding"
    /\ se_op'.op = "forward"
    /\ se_op'.out # <<>>

C29_ForwardingSharesTimer ==
    [][ForwardWrites =>
         LET out == se_op'.out
         IN /\ out[1].kind = "input"
            /\ out[1].timer = se_bt_timer
            /\ se_last.phase = "forwarding" =>
                  out[1].timer = WrappingInc(se_last.timer)
            /\ \A i \in 2..Len(out) :
                  /\ out[i].kind = "reply"
                  /\ out[i].timer = WrappingInc(out[i - 1].timer)]_vars

\* A forwarded report with timer 255 was followed by a reply with timer 0.
C29_Witness ==
    /\ se_pc = "forwarding"
    /\ se_op.op = "forward"
    /\ se_op.outcome = "reply"
    /\ Len(se_op.out) = 2
    /\ se_op.out[1].timer = 255
    /\ se_op.out[2].timer = 0
    /\ se_bt_timer = 1

(***************************************************************************)
(* C30: within one L2CAP session every report written after the initial    *)
(* pairing report (pairing replies, neutral reports, forwarded reports,    *)
(* replies in the forwarding loop) carries the timer of the report written *)
(* before it plus 1 modulo 256.                                            *)
(***************************************************************************)
SessionWrites ==
    /\ se_op'.op \in {"pairing", "forward"}
    /\ se_op'.out # <<>>
    /\ se_last.phase # "none"

C30_SessionTimerChain ==
    [][SessionWrites =>
         LET out == se_op'.out
         IN /\ out[1].timer = WrappingInc(se_last.timer)
            /\ \A i \in 2..Len(out) :
                  out[i].timer = WrappingInc(out[i - 1].timer)]_vars

(***************************************************************************)
(* C27: when a session forwards its first report after a Bluetooth or USB  *)
(* disconnect, and no command has set a macro flag since the disconnect,   *)
(* the player is not playing, the report carries timer 0, and the          *)
(* published snapshot shows macro mode, recording and playing as false.    *)
(***************************************************************************)
FirstForwardAfterDisconnect ==
    /\ dn_pc = "forwarding"
    /\ dn_since \in {"bt", "usb"}
    /\ dn_op'.op = "forward"

DownstreamReset ==
    /\ ~dn_worker.playing
    /\ dn_op'.timer = 0
    /\ ~dn_snapshot.macro_mode
    /\ ~dn_snapshot.recording
    /\ ~dn_snapshot.playing

C27_DisconnectResetsDownstream ==
    [][FirstForwardAfterDisconnect => DownstreamReset]_vars

(***************************************************************************)
(* C31: every iteration of the pairing loop that goes on (a message was    *)
(* read or the read timed out) writes one neutral 0x30 input report on the *)
(* interrupt channel. Iterations whose neutral write was attempted and     *)
(* failed are left aside.                                                  *)
(***************************************************************************)
PairingIteration ==
    /\ pr_pc = "loop"
    /\ pr_pc' # "err"
    /\ ~(itr_out' = NoWrite /\ timer' # timer)

WroteNeutral ==
    /\ itr_out'.site = "neutral"
    /\ Len(itr_out'.bytes) >= 2
    /\ At(itr_out'.bytes, 1) = 48

C31_EveryCycleWritesNeutral ==
    [][PairingIteration => WroteNeutral]_vars

(***************************************************************************)
(* C32: a HID reader that is running when its receiver is dropped          *)
(* eventually exits without error, and no reader is spawned while the      *)
(* reader of an earlier USB cycle is still running.                        *)
(***************************************************************************)
ReaderOrphaned(r) == hid_rx[r] = "dropped" /\ ReaderRunning(r)

SpawnedBesideRunning ==
    \E r \in Readers :
       /\ hid_pc[r] = "unborn"
       /\ hid_pc'[r] # "unborn"
       /\ \E q \in Readers : q < r /\ ReaderRunning(q)

C32_ReaderExitsAfterDrop ==
    /\ \A r \in Readers : ReaderOrphaned(r) ~> (hid_pc[r] = "exited_ok")
    /\ [][~SpawnedBesideRunning]_vars

(***************************************************************************)
(* C33: the combination buttons never reach the console or a recording     *)
(***************************************************************************)
\* Where the Bluetooth report carries a combination button:
\* <<element of the report, mask>> (BtByte4, BtByte5, BtByte6).
BtPosition(btn) ==
    CASE btn = "B" -> <<5, \h04>>
      [] btn = "A" -> <<5, \h08>>
      [] btn = "R3" -> <<6, \h04>>
      [] btn = "L3" -> <<6, \h08>>
      [] btn = "DpadDown" -> <<7, \h01>>
      [] btn = "DpadRight" -> <<7, \h04>>
      [] btn = "DpadLeft" -> <<7, \h08>>

\* The combination buttons a Bluetooth report shows as pressed.
BtShows(report) ==
    {btn \in ComboButtons :
        HasBit(report[BtPosition(btn)[1]], BtPosition(btn)[2])}

\* The buttons a raw report shows as pressed.
RawShows(report) == ParseButtons(SubSeq(report, 4, 6))

\* The button sets the live path let out: the queued Bluetooth report and
\* every frame given to the recorder.
LiveOutputs ==
    {BtShows(lv_bt)} \cup {RawShows(lv_frames[i]) : i \in 1..Len(lv_frames)}

\* C33: for every report on the live path, no output shows both stick
\* buttons; when the input holds both, no output shows D-pad Down, Left,
\* Right, A or B; and the parsed state and the raw report are masked alike.
C33_ComboButtonsMasked ==
    lv_in # <<>> =>
        /\ \A out \in LiveOutputs :
              /\ ~({"L3", "R3"} \subseteq out)
              /\ BaseHeld(lv_held) =>
                    out \cap {"DpadDown", "DpadLeft", "DpadRight", "A", "B"}
                        = {}
        /\ RawShows(lv_filtered) = lv_buttons

\* Both stick buttons, A and D-pad Left are held in a report that is being
\* recorded, and X, which is no combination button, goes through.
C33_Witness ==
    /\ lv_in # <<>>
    /\ {"L3", "R3", "A", "DpadLeft", "X"} \subseteq lv_held
    /\ Len(lv_frames) = 1
    /\ "X" \in RawShows(lv_frames[1])
    /\ "X" \in lv_buttons

(***************************************************************************)
(* C35: a playback without looping ends                                    *)
(***************************************************************************)
\* A playback without looping is running at a speed at which every frame of
\* the files of PlayerDir falls due before the clock of the model ends.
PlaybackRunning == pl_playing /\ ~pl_looping /\ pl_speed >= 1000

\* C35: every playback without looping that was started on a file load
\* accepted ends, get_frame being called again and again while time
\* advances; also on a file whose header counts more frames than it holds.
C35_PlaybackEnds == PlaybackRunning ~> ~pl_playing

(***************************************************************************)
(* C37: the cached slot count and macro name                               *)
(***************************************************************************)
\* The cache says what refresh_cache would say now.
CacheFresh ==
    /\ cached_slot_count = Len(fs_index)
    /\ cached_macro_name = refresh_cache(fs_index, current_slot).name

\* C37: after every executed command the cached slot count is the number of
\* entries of the macro index and the cached macro name is the name of the
\* entry at the current slot, also after a command that saved a recording.
C37_CacheMatchesIndex == (ct_built /\ ct_op.cmd # "new") => CacheFresh

(***************************************************************************)
(* C39: the recorder's buffer                                              *)
(***************************************************************************)
\* add_frame on an idle recorder leaves buffer and flag as they were.
IdleAddIgnored ==
    (st_op'.op = "add_frame" /\ ~rec_recording)
        => UNCHANGED <<rec_frames, rec_recording>>

\* start empties the buffer and enters recording.
StartEmpties ==
    st_op'.op = "start" => (rec_frames' = <<>> /\ rec_recording')

\* add_frame while recording appends exactly one frame, the report it was
\* given with a timestamp not below that of the frame before it.
RecordingAddAppends ==
    (st_op'.op = "add_frame" /\ rec_recording)
        => /\ Len(rec_frames') = Len(rec_frames) + 1
           /\ SubSeq(rec_frames', 1, Len(rec_frames)) = rec_frames
           /\ rec_frames'[Len(rec_frames')][2] = FrameReport
           /\ rec_frames # <<>> =>
                 LeqBytes(rec_frames[Len(rec_frames)][1],
                          rec_frames'[Len(rec_frames')][1])
           /\ rec_recording'

\* stop enters idle, keeps the buffer and returns the number of frames and
\* the timestamp of the last one.
StopReports ==
    st_op'.op = "stop"
        => /\ ~rec_recording'
           /\ rec_frames' = rec_frames
           /\ st_op'.ret[1] = Len(rec_frames)
           /\ rec_frames # <<>> =>
                 st_op'.ret[2] = rec_frames[Len(rec_frames)][1]

\* C39: add_frame while idle changes nothing; start empties the buffer and
\* enters recording; add_frame while recording appends one (elapsed, report)
\* frame whose timestamp is not below the previous one; stop enters idle,
\* keeps the buffer and reports the frame count and the last timestamp.
C39_RecorderBuffer ==
    [][IdleAddIgnored /\ StartEmpties /\ RecordingAddAppends
       /\ StopReports]_vars

\* A recording of two frames with different timestamps has been stopped.
C39_Witness ==
    /\ st_op.op = "stop"
    /\ ~rec_recording
    /\ Len(rec_frames) = 2
    /\ rec_frames[1][1] # rec_frames[2][1]
    /\ st_op.ret = <<2, rec_frames[2][1]>>

(***************************************************************************)
(* C34: what ends a playback in the worker                                 *)
(***************************************************************************)
\* The step ends a running playback.
PlaybackEnds == wk_player.playing /\ ~wk_player'.playing

\* The step handled StopPlayback, from the web or from the combo.
StopIssued == wk_op'.what = "StopPlayback"

\* get_frame returned the last frame of the macro in the step.
FinalFrameEmitted ==
    wk_op'.idx > 0 /\ wk_op'.idx = wk_player.frame_count

\* C34: the worker ends a playback that PlayMacro started only when
\* StopPlayback is issued or when the player has emitted its final frame; a
\* get_frame call that returns no frame, the first timestamp not being
\* reached, does not end it.
C34_PlaybackEndsOnStopOrFinal ==
    [][PlaybackEnds => (StopIssued \/ FinalFrameEmitted)]_vars

(***************************************************************************)
(* C36: the LED after a playback                                           *)
(***************************************************************************)
\* A playback that ends by StopPlayback or by its final frame leaves the LED
\* on the pattern of the mode.
EndResetsLed ==
    (PlaybackEnds /\ (StopIssued \/ FinalFrameEmitted))
        => wk_led' = mode_led(wk_macro_mode')

\* C36: whenever a playback ends, by StopPlayback or by the final frame, the
\* worker writes the LED pattern of the current mode, and the playback
\* pattern is never the last one written while the player is idle.
C36_LedResetAfterPlayback ==
    /\ [][EndResetsLed]_vars
    /\ [](~wk_player.playing => wk_led # "LED_PLAYBACK")

(***************************************************************************)
(* C38: a reader of the index beside the worker's mutations                *)
(***************************************************************************)
\* The reader's load_index returns in the step.
ReaderLoads == ix_seen = <<>> /\ ix_seen' # <<>>

\* C38: a reader that reloads the macro index while the worker saves,
\* renames or deletes sees the index as it was before the mutation or as it
\* is after it, never an empty or partial one.
C38_ReaderSeesWholeIndex ==
    [][ReaderLoads => ix_seen'[1] \in {ix_before, ix_after}]_vars

(***************************************************************************)
(* C40: the order of the Bluetooth host setup                              *)
(***************************************************************************)
\* The setup loop has been left.
SetupComplete == bs_pc \in {"done", "lifecycle"}

\* Agent, adapter properties, profile, adapter name, device class.
SetupOrder ==
    <<"agent">> \o AdapterProperties \o <<"profile", "name", "class">>

\* C40: in every execution, after any number of failed attempts and
\* retries, the setup completes in the order pairing agent, adapter
\* properties, HID profile, adapter name, device class, and nothing is
\* written to the adapter after the device class of the attempt that
\* succeeded.
C40_SetupOrder ==
    /\ [](SetupComplete => bs_log = SetupOrder)
    /\ [][SetupComplete => UNCHANGED bs_log]_vars

\* The setup is complete after two failed attempts, main has gone on, and
\* BlueZ had answered a registration of the last attempt with "already
\* exists".
C40_Witness ==
    /\ bs_pc = "lifecycle"
    /\ bs_attempts = 3
    /\ bs_tolerated # {}
    /\ bs_log[Len(bs_log)] = "class"

====
